---- MODULE Spec2Model ----
(***************************************************************************)
(* StellarForge procedural generation core: DensityField, GalaxyPlacer and *)
(* UniverseGenerator (src/src/proc_gen).                                   *)
(*                                                                         *)
(* Numbers.  Positions are integer triples in fixed point, PosScale units  *)
(* per world unit.  Densities are integers in hundredths (DensityScale).   *)
(* Every draw from numpy's global random stream is a nondeterministic      *)
(* choice over (a sample of) the values the draw can produce.              *)
(*                                                                         *)
(* Arrays of particles.  A particle array is a sequence of segments; a     *)
(* segment [part, n, ...] stands for n consecutive rows drawn from the     *)
(* distribution named by part.  Rows(a) is the number of rows of a.        *)
(*                                                                         *)
(* Calls.  A caller first invokes a method (Call... puts the arguments in  *)
(* pending), then the method body runs as one action that leaves the       *)
(* arguments and the outcome in the method's call record (pl, gp, df, gu), *)
(* and Return is the caller taking the outcome.                            *)
(***************************************************************************)
EXTENDS Integers, Sequences, FiniteSets, TLC

VARIABLES
    galaxy_positions,     \* GalaxyPlacer.galaxy_positions
    galaxy_properties,    \* GalaxyPlacer.galaxy_properties
    pending,              \* the invocation about to run (op = "none": idle)
    pl,                   \* last place_galaxies call: arguments and return value
    gp,                   \* last generate_galaxy_particles call: argument and outcome
    volume_size,          \* DensityField.volume_size
    field,                \* DensityField.field (None before generate)
    df,                   \* last DensityField method call: arguments and outcome
    generated_positions,  \* UniverseGenerator.generated_positions
    generated_velocities, \* UniverseGenerator.generated_velocities
    generated_types,      \* UniverseGenerator.generated_types
    gu,                   \* last generate_universe call: arguments and outcome
    noise_available,      \* density_field.NOISE_AVAILABLE
    rng,                  \* state of numpy's global random stream
    pnoise3,              \* the noise package: seed (base) -> field, where evaluated
    random_stream,        \* np.random.random from a stream state -> field, where drawn
    returned,             \* per seed, the field generate(seed) first returned
    initialized,          \* MockEngine.initialized
    particle_count,       \* MockEngine.particle_count
    positions,            \* MockEngine.positions (an array object, or None)
    velocities,           \* MockEngine.velocities
    masses,               \* MockEngine.masses
    types,                \* MockEngine.types
    colors,               \* MockEngine.colors
    initial_positions,    \* MockEngine.initial_positions
    initial_velocities,   \* MockEngine.initial_velocities
    ops,                  \* number of calls that changed the engine since initialize
    at_initialize,        \* the positions and velocities when initialize finished
    en,                   \* last MockEngine call: arguments, state before, outcome
    errors,               \* ErrorLogger.errors
    clock,                \* datetime.now(), counted in records logged
    lg,                   \* last get_errors call: arguments and return value
    app_state,            \* MainWindow.app_state (an AppState)
    update_timer,         \* MainWindow.update_timer.isActive()
    timeline_is_playing,  \* MainWindow.timeline_widget.is_playing
    event,                \* the last MainWindow event handled
    data_dir,             \* ScenarioManager.data_dir: the files of the one name used
    source,               \* the AppState handed to the last save_scenario, if any
    target,               \* the AppState handed to the last load_scenario
    sc,                   \* last load_scenario call: target before it, return value
    sy                    \* two structures synthesized from one stream state

placerVars == <<galaxy_positions, galaxy_properties, pl, gp>>
fieldVars == <<volume_size, field, df>>
universeVars == <<generated_positions, generated_velocities, generated_types, gu>>

noiseVars == <<noise_available, rng, pnoise3, random_stream, returned>>

loggerVars == <<errors, clock, lg>>

engineVars == <<initialized, particle_count, positions, velocities, masses, types,
                colors, initial_positions, initial_velocities, ops, at_initialize,
                en>>

windowVars == <<app_state, update_timer, timeline_is_playing, event>>

\* the state of the application's objects
scenarioVars == <<data_dir, source, target, sc>>

guiVars == <<windowVars, scenarioVars, sy>>

\* what GalaxyPlacer, DensityField's other methods and generate_universe leave alone
restVars == <<noiseVars, engineVars, loggerVars, guiVars>>

\* what MockEngine leaves alone
procGenVars == <<placerVars, fieldVars, universeVars, pending, noiseVars, loggerVars,
                 guiVars>>

vars == <<placerVars, fieldVars, universeVars, pending, restVars>>

-----------------------------------------------------------------------------
(* Bounds of the model *)

\* longest candidate array handed to place_galaxies
MaxCands == 3

\* largest dimension of a volume
MaxDim == 3

\* most positions asked of get_high_density_positions
MaxPositions == 2

\* most galaxies asked of generate_universe
MaxGalaxies == 2

\* largest seed handed to generate
MaxSeed == 2

\* most particles MockEngine is initialized with (one more can be added)
MaxParticles == 2

\* most step, add_particle, remove_particle and reset calls after one initialize
MaxOps == 3

\* most records logged, and the largest limit asked of get_errors
MaxLogged == 3

\* most snapshots an AppState handed to save_scenario holds
MaxSnapshots == 11

(* Python's None (an Optional[int] is <<>> or <<n>>) *)
None == <<>>
Some(n) == <<n>>

-----------------------------------------------------------------------------
(* Fixed point and vectors *)

PosScale == 2 * 6

Vec(x, y, z) == <<x, y, z>>

Sq(x) == x * x

\* squared Euclidean norm of p - q
DistSq(p, q) == Sq(p[1] - q[1]) + Sq(p[2] - q[2]) + Sq(p[3] - q[3])

\* A comparison that turns away a candidate lying exactly min_separation
\* from an accepted one
DistanceGt(p, q, min_separation) ==
    \/ min_separation <= 0
    \/ DistSq(p, q) > Sq(min_separation)

\* np.linalg.norm(p - q) >= min_separation, decided on the squares
DistanceGe(p, q, min_separation) ==
    \/ min_separation <= 0
    \/ DistSq(p, q) >= Sq(min_separation)

RECURSIVE SumN(_)
\* total of the n fields of a sequence of segments
SumN(a) == IF a = <<>> THEN 0 ELSE Head(a).n + SumN(Tail(a))

\* len(a) of a particle array
Rows(a) == SumN(a)

\* all orders of the indices 1..n (the outcomes of np.random.shuffle)
Shuffles(n) ==
    {f \in [1..n -> 1..n] : \A i, j \in 1..n : i # j => f[i] # f[j]}

-----------------------------------------------------------------------------
(* GalaxyPlacer: src/src/proc_gen/galaxy_placer.py *)

GalaxyTypes == {"spiral", "elliptical", "irregular"}

\* np.random.randint(lo, hi) ranges of star_count per type
SpiralMin == 1000
SpiralMax == 5000
EllipticalMin == 500
EllipticalMax == 3000
IrregularMin == 200
IrregularMax == 1000

\* A randint whose upper end is drawn too
StarCountsInclusive(type) ==
    CASE type = "spiral"     -> {SpiralMax}
      [] type = "elliptical" -> {EllipticalMin}
      [] OTHER               -> {IrregularMax}

\* a sample of each randint range: one of its ends
StarCounts(type) ==
    CASE type = "spiral"     -> {SpiralMax - 1}
      [] type = "elliptical" -> {EllipticalMin}
      [] OTHER               -> {IrregularMax - 1}

\* sample of np.random.uniform(0.5, 2.0), in hundredths
RotationSpeeds == {150}
\* sample of np.random.uniform(3.0, 10.0), in tenths
SizeScales == {30}
\* sample of the normalised np.random.randn(3)
Orientations == {Vec(0, 0, 1)}
\* sample of np.random.uniform([0.8, 0.8, 0.9], [1.0, 1.0, 1.0]), in tenths
ColorTints == {Vec(8, 8, 9)}

\* what one call of _generate_galaxy_properties draws from the random stream;
\* np.random.uniform(0.5, 2.0) is drawn for a spiral only (0 stands for no draw)
Draws ==
    UNION {[type : {t}, star_count : StarCounts(t),
            rotation_speed : IF t = "spiral" THEN RotationSpeeds ELSE {0},
            size_scale : SizeScales, orientation : Orientations,
            color_tint : ColorTints] : t \in GalaxyTypes}

\* _generate_galaxy_properties(position), given its draws
GenerateGalaxyProperties(position, d) ==
    [type           |-> d.type,
     position       |-> position,
     star_count     |-> d.star_count,
     size_scale     |-> d.size_scale,
     rotation_speed |-> IF d.type = "spiral" THEN d.rotation_speed ELSE 0,
     orientation    |-> d.orientation,
     color_tint     |-> d.color_tint]

\* mutant of Separated: only the last accepted centre is compared
SeparatedFromLast(density_positions, selected_indices, pos, min_separation) ==
    \/ Len(selected_indices) = 0
    \/ DistanceGe(density_positions[selected_indices[Len(selected_indices)]], pos,
                  min_separation)

\* An acceptance test with no unconditional first acceptance
SeparatedNeedsPeer(density_positions, selected_indices, pos, min_separation) ==
    /\ Len(selected_indices) > 0
    /\ \A k \in 1..Len(selected_indices) :
            DistanceGe(density_positions[selected_indices[k]], pos, min_separation)

\* the acceptance test of place_galaxies for candidate pos
Separated(density_positions, selected_indices, pos, min_separation) ==
    IF Len(selected_indices) = 0
    THEN TRUE
    ELSE \A k \in 1..Len(selected_indices) :
            DistanceGe(density_positions[selected_indices[k]], pos, min_separation)

RECURSIVE SelectLoop(_, _, _, _, _, _)
\* the loop over available_indices (from position i on) of place_galaxies
SelectLoop(density_positions, available_indices, i, num_galaxies, min_separation, selected_indices) ==
    IF i > Len(available_indices) \/ Len(selected_indices) >= num_galaxies
    THEN selected_indices
    ELSE LET idx == available_indices[i]
             pos == density_positions[idx]
         IN SelectLoop(density_positions, available_indices, i + 1, num_galaxies,
                       min_separation,
                       IF Separated(density_positions, selected_indices, pos,
                                    min_separation)
                       THEN Append(selected_indices, idx)
                       ELSE selected_indices)

\* mutant of EffectiveCount: max in place of min
EffectiveCountMax(density_positions, num_galaxies) ==
    IF num_galaxies = None
    THEN Len(density_positions)
    ELSE IF num_galaxies[1] > Len(density_positions)
         THEN num_galaxies[1] ELSE Len(density_positions)

\* num_galaxies after "Determine number of galaxies"
EffectiveCount(density_positions, num_galaxies) ==
    IF num_galaxies = None
    THEN Len(density_positions)
    ELSE IF num_galaxies[1] < Len(density_positions)
         THEN num_galaxies[1] ELSE Len(density_positions)

\* the possible results of place_galaxies: what it returns, what it leaves in
\* the placer (kept: the early return leaves the placer as it was)
PlaceResults(density_positions, num_galaxies, min_separation) ==
    IF Len(density_positions) = 0
    THEN {[kept |-> TRUE, selected_indices |-> <<>>, positions |-> <<>>,
           properties |-> <<>>]}
    ELSE LET selections ==
                 {SelectLoop(density_positions, available_indices, 1,
                             EffectiveCount(density_positions, num_galaxies),
                             min_separation, <<>>) :
                     available_indices \in Shuffles(Len(density_positions))}
         IN UNION {
                {[kept |-> FALSE,
                  selected_indices |-> sel,
                  positions  |-> [k \in 1..Len(sel) |-> density_positions[sel[k]]],
                  properties |-> [k \in 1..Len(sel) |->
                      GenerateGalaxyProperties(density_positions[sel[k]], d[k])]] :
                 d \in [1..Len(sel) -> Draws]} :
                sel \in selections}

\* the first m rows of a particle array dropped
RECURSIVE DropRows(_, _)
DropRows(a, m) ==
    IF m <= 0 \/ a = <<>> THEN a
    ELSE IF Head(a).n <= m THEN DropRows(Tail(a), m - Head(a).n)
    ELSE <<[Head(a) EXCEPT !.n = Head(a).n - m]>> \o Tail(a)

\* a[:m] = seg, on a particle array of at least m rows
SetPrefix(a, m, seg) ==
    IF m <= 0 THEN a ELSE <<[seg EXCEPT !.n = m]>> \o DropRows(a, m)

\* a + center, row by row
Translate(a, center) == [k \in 1..Len(a) |-> [a[k] EXCEPT !.center = center]]

Origin == Vec(0, 0, 0)

PosSeg(part, id, n) == [part |-> part, id |-> id, n |-> n, center |-> Origin]
\* n velocity rows; center: the offset added to them, none unless translated
VelSeg(part, n, speed) ==
    [part |-> part, n |-> n, speed |-> speed, center |-> Origin]

\* int(count * 0.3): for every count up to SpiralMax the float product truncates
\* to the integer quotient
BulgeCount(count) == (count * 3) \div 10

\* mutant of GenerateSpiralGalaxy: the arms are sized by their own fraction
GenerateSpiralGalaxyArmFraction(center, count, scale, rotation_speed, orientation) ==
    LET bulge_count == BulgeCount(count)
        arm_count == (count * 7) \div 10
    IN [err |-> "none", num_clumps |-> 0,
        positions  |-> Translate(<<PosSeg("bulge", 0, bulge_count),
                                   PosSeg("arm", 0, arm_count)>>, center),
        velocities |-> <<VelSeg("zero", bulge_count, 0),
                         VelSeg("orbital", arm_count, rotation_speed)>>]

\* A spiral whose velocities are translated with its positions
GenerateSpiralGalaxyMoving(center, count, scale, rotation_speed, orientation) ==
    LET bulge_count == BulgeCount(count)
        arm_count == count - bulge_count
    IN [err |-> "none", num_clumps |-> 0,
        positions  |-> Translate(<<PosSeg("bulge", 0, bulge_count),
                                   PosSeg("arm", 0, arm_count)>>, center),
        velocities |-> Translate(<<VelSeg("zero", bulge_count, 0),
                                   VelSeg("orbital", arm_count, rotation_speed)>>,
                                 center)]

\* A spiral whose disc is turned to its orientation
GenerateSpiralGalaxyOriented(center, count, scale, rotation_speed, orientation) ==
    LET bulge_count == BulgeCount(count)
        arm_count == count - bulge_count
    IN [err |-> "none", num_clumps |-> 0,
        positions  |-> Translate(<<PosSeg("bulge", 0, bulge_count),
                                   PosSeg("arm", orientation, arm_count)>>, center),
        velocities |-> <<VelSeg("zero", bulge_count, 0),
                         VelSeg("orbital", arm_count, rotation_speed)>>]

\* _generate_spiral_galaxy
GenerateSpiralGalaxy(center, count, scale, rotation_speed, orientation) ==
    LET bulge_count == BulgeCount(count)
        arm_count == count - bulge_count
        bulge_pos == <<PosSeg("bulge", 0, bulge_count)>>
        bulge_vel == <<VelSeg("zero", bulge_count, 0)>>
        arm_pos == <<PosSeg("arm", 0, arm_count)>>
        arm_vel == <<VelSeg("orbital", arm_count, rotation_speed)>>
    IN [err |-> "none", num_clumps |-> 0,
        positions  |-> Translate(bulge_pos \o arm_pos, center),
        velocities |-> bulge_vel \o arm_vel]

\* _generate_elliptical_galaxy
GenerateEllipticalGalaxy(center, count, scale) ==
    [err |-> "none", num_clumps |-> 0,
     positions  |-> Translate(<<PosSeg("sphere", 0, count)>>, center),
     velocities |-> <<VelSeg("random", count, 20)>>]

\* np.random.randint(2, 5) clumps
ClumpsMin == 2
ClumpsMax == 5

RECURSIVE ClumpLoop(_, _, _, _)
\* the loop "for _ in range(num_clumps)" from clump c on
ClumpLoop(cube, count, num_clumps, c) ==
    IF c > num_clumps THEN cube
    ELSE LET clump_count == count \div num_clumps
         IN ClumpLoop(SetPrefix(cube, clump_count,
                                PosSeg("clump", c, clump_count)),
                      count, num_clumps, c + 1)

\* mutant of GenerateIrregularGalaxy: a clump is stacked under the cube
GenerateIrregularGalaxyStacked(center, count, scale, num_clumps) ==
    [err |-> "none", num_clumps |-> num_clumps,
     positions  |-> Translate(<<PosSeg("cube", 0, count),
                                PosSeg("clump", num_clumps, count \div num_clumps)>>,
                              center),
     velocities |-> <<VelSeg("random", count, 30)>>]

\* _generate_irregular_galaxy, given the number of clumps drawn
GenerateIrregularGalaxy(center, count, scale, num_clumps) ==
    [err |-> "none", num_clumps |-> num_clumps,
     positions  |-> Translate(ClumpLoop(<<PosSeg("cube", 0, count)>>, count,
                                        num_clumps, 1), center),
     velocities |-> <<VelSeg("random", count, 30)>>]

Failure(err) == [err |-> err, num_clumps |-> 0, positions |-> <<>>, velocities |-> <<>>]

\* mutant of IndexInvalid: off by one
IndexInvalidOffByOne(properties, galaxy_idx) == galaxy_idx > Len(properties)

\* the range check of generate_galaxy_particles
IndexInvalid(properties, galaxy_idx) == galaxy_idx >= Len(properties)

\* the possible outcomes of generate_galaxy_particles(galaxy_idx) on a placer
\* holding properties; a Python list takes an index in -len .. len - 1; clumps:
\* the numbers of clumps np.random.randint(2, 5) is taken to draw
GenerateGalaxyParticlesResults(properties, galaxy_idx, clumps) ==
    IF IndexInvalid(properties, galaxy_idx)
    THEN {Failure("ValueError")}
    ELSE IF galaxy_idx < 0 - Len(properties) \/ galaxy_idx >= Len(properties)
    THEN {Failure("IndexError")}
    ELSE LET props == properties[IF galaxy_idx >= 0 THEN galaxy_idx + 1
                                 ELSE Len(properties) + galaxy_idx + 1]
             center == props.position
             count == props.star_count
             scale == props.size_scale
         IN IF props.type = "spiral"
            THEN {GenerateSpiralGalaxy(center, count, scale, props.rotation_speed,
                                       props.orientation)}
            ELSE IF props.type = "elliptical"
            THEN {GenerateEllipticalGalaxy(center, count, scale)}
            ELSE {GenerateIrregularGalaxy(center, count, scale, num_clumps) :
                    num_clumps \in clumps}

-----------------------------------------------------------------------------
(* DensityField: src/src/proc_gen/density_field.py *)

\* densities are float32 values in [0, 1], here in hundredths
DensityScale == 100

\* the grid indices of a volume
Voxels(size) ==
    {Vec(i, j, k) : i \in 0..(size[1] - 1), j \in 0..(size[2] - 1),
                    k \in 0..(size[3] - 1)}

VoxelCount(size) == size[1] * size[2] * size[3]

\* the n-th grid index in row-major order, n from 0
VoxelAt(size, n) ==
    Vec(n \div (size[2] * size[3]), (n \div size[3]) % size[2], n % size[3])

Max2(a, b) == IF a >= b THEN a ELSE b

\* max(self.volume_size)
MaxDimOf(size) == Max2(size[1], Max2(size[2], size[3]))

\* the fields generate can leave: each voxel (noise + 1) / 2, or a smoothed
\* random value, anywhere in [0, 1] (levels: the sample of values voxels take)
GenerateResults(size, levels) == [Voxels(size) -> levels]

RECURSIVE ArgWhereFrom(_, _, _, _)
\* np.argwhere(field > threshold): the grid indices from the n-th on, row-major
ArgWhereFrom(f, size, threshold, n) ==
    IF n >= VoxelCount(size) THEN <<>>
    ELSE (IF f[VoxelAt(size, n)] > threshold THEN <<VoxelAt(size, n)>> ELSE <<>>)
         \o ArgWhereFrom(f, size, threshold, n + 1)

\* mutant of ArgWhere: a voxel at the threshold counts as above it
ArgWhereInclusive(f, size, threshold) == ArgWhereFrom(f, size, threshold - 1, 0)

\* np.argwhere(self.field > threshold)
ArgWhere(f, size, threshold) == ArgWhereFrom(f, size, threshold, 0)

\* np.random.choice(q, k, replace=False): k distinct indices in drawn order
Choices(q, k) ==
    {c \in [1..k -> 1..q] : \A i, j \in 1..k : i # j => c[i] # c[j]}

\* astype(np.float32) of an integer: exact up to 2^24, then to the nearest
\* even integer with ties to the even mantissa (valid below 2^25)
Float32(n) ==
    IF n <= 16777216 \/ n % 2 = 0 THEN n
    ELSE IF (n + 1) % 4 = 0 THEN n + 1 ELSE n - 1

Float32Vec(v) == Vec(Float32(v[1]), Float32(v[2]), Float32(v[3]))

\* mutant of Sample: the subsample is drawn with replacement
SampleWithReplacement(high_density, max_positions) ==
    IF Len(high_density) > max_positions
    THEN {[k \in 1..max_positions |-> high_density[c[k]]] :
            c \in [1..max_positions -> 1..Len(high_density)]}
    ELSE {high_density}

\* "Sample if too many" of get_high_density_positions
Sample(high_density, max_positions) ==
    IF Len(high_density) > max_positions
    THEN {[k \in 1..max_positions |-> high_density[c[k]]] :
            c \in Choices(Len(high_density), max_positions)}
    ELSE {high_density}

\* the arrays get_high_density_positions can return on a generated field
HighDensityResults(f, size, threshold, max_positions) ==
    LET high_density == ArgWhere(f, size, threshold)
    IN IF Len(high_density) = 0 THEN {<<>>}
       ELSE {[k \in 1..Len(h) |-> Float32Vec(h[k])] :
                h \in Sample(high_density, max_positions)}

\* (self.field > threshold).astype(np.float32)
ThresholdMask(f, size, threshold) ==
    [v \in Voxels(size) |-> IF f[v] > threshold THEN 1 ELSE 0]

\* mutant of ApplyThresholdResult: an all-zero mask for an ungenerated field
ApplyThresholdDefault(f, size, threshold) ==
    IF f = None
    THEN [err |-> "none", value |-> [v \in Voxels(size) |-> 0]]
    ELSE [err |-> "none", value |-> ThresholdMask(f, size, threshold)]

\* apply_threshold on a DensityField whose field is f
ApplyThresholdResult(f, size, threshold) ==
    IF f = None
    THEN [err |-> "ValueError", value |-> <<>>]
    ELSE [err |-> "none", value |-> ThresholdMask(f, size, threshold)]

\* normalize_positions: (positions - size / 2) * (world_scale / max(size)),
\* world_scale in world units, the result in fixed point
NormalizePositions(size, grid_positions, world_scale) ==
    IF Len(grid_positions) = 0 THEN grid_positions
    ELSE [k \in 1..Len(grid_positions) |->
            [a \in 1..3 |->
                ((2 * grid_positions[k][a] - size[a]) * world_scale * PosScale)
                    \div (2 * MaxDimOf(size))]]

\* 100 * dist^2 / (2 * falloff^2) at voxel v; falloff in hundredths
GradientExponent(size, center, falloff, v) ==
    LET den == Sq(size[1] * size[2] * size[3])
        num == Sq((v[1] - center[1]) * size[2] * size[3])
               + Sq((v[2] - center[2]) * size[1] * size[3])
               + Sq((v[3] - center[3]) * size[1] * size[2])
    IN (num * 1000000) \div (den * 2 * Sq(falloff))

\* np.exp(-x) in hundredths, x in hundredths: 1 / (1 + x + x^2 / 2), which is
\* 1 at x = 0, decreasing and within 0.02 of exp(-x)
ExpNeg(x) == 2000000 \div (20000 + 200 * x + x * x)

\* the float nan: no number, and not > any threshold
NaN == 0 - 1

\* gradient = np.exp(-dist**2 / (2 * falloff**2)) at voxel v, in hundredths: a
\* numpy division, so with falloff 0 it is exp(nan) = nan at dist 0 and
\* exp(-inf) = 0 elsewhere
Gradient(size, center, falloff, v) ==
    IF falloff = 0
    THEN (IF v = center THEN NaN ELSE 0)
    ELSE ExpNeg(GradientExponent(size, center, falloff, v))

\* self.field[i, j, k] *= gradient
TimesGradient(x, gradient) ==
    IF x = NaN \/ gradient = NaN THEN NaN ELSE (x * gradient) \div DensityScale

\* add_gradient: each voxel multiplied by its gradient
AddGradient(f, size, center, falloff) ==
    [v \in Voxels(size) |-> TimesGradient(f[v], Gradient(size, center, falloff, v))]

-----------------------------------------------------------------------------
(* UniverseGenerator: src/src/proc_gen/universe_generator.py *)

\* threshold=0.5, in hundredths
Threshold == 50
\* falloff=0.4, in hundredths
GradientFalloff == 40
\* max_positions=num_galaxies * 2
CandidateFactor == 2
\* min_separation=world_scale * 0.15, in hundredths
SeparationFraction == 15
\* total_particles = num_galaxies * 1000
FallbackParticles == 1000

TypeSeg(n) == [tag |-> 0, n |-> n]

\* center = tuple(s // 2 for s in volume_size)
CenterOf(size) == Vec(size[1] \div 2, size[2] \div 2, size[3] \div 2)

\* The gradient applied a second time to the field it has shaped
ShapedTwice(g, size) ==
    AddGradient(AddGradient(g, size, CenterOf(size), GradientFalloff),
                size, CenterOf(size), GradientFalloff)

\* density.add_gradient(center, falloff=0.4) on the field generate returned
ShapedField(g, size) == AddGradient(g, size, CenterOf(size), GradientFalloff)

\* world_scale * 0.15 in fixed point
MinSeparationOf(world_scale) ==
    (world_scale * SeparationFraction * PosScale) \div 100

\* mutant of RandomUniverse: the fallback yields no particle at all
RandomUniverseEmpty(num_galaxies, world_scale) ==
    [positions  |-> <<PosSeg("uniform", 0, 0)>>,
     velocities |-> <<VelSeg("random", 0, 50)>>,
     types      |-> <<TypeSeg(0)>>]

\* np.random.uniform(low, high, (n, 3)): n rows with coordinates in [low, high)
UniformSeg(n, low, high) ==
    [part |-> "uniform", id |-> 0, n |-> n, center |-> Origin,
     low |-> low, high |-> high]

\* mutant of RandomUniverse: coordinates drawn from a cube of side 2 * world_scale
RandomUniverseWide(num_galaxies, world_scale) ==
    LET total_particles == num_galaxies * FallbackParticles
    IN [positions  |-> <<UniformSeg(total_particles, 0 - world_scale * PosScale,
                                    world_scale * PosScale)>>,
        velocities |-> <<VelSeg("random", total_particles, 50)>>,
        types      |-> <<TypeSeg(total_particles)>>]

\* _generate_random_universe
RandomUniverse(num_galaxies, world_scale) ==
    LET total_particles == num_galaxies * FallbackParticles
    IN [positions  |-> <<UniformSeg(total_particles,
                                    0 - (world_scale * PosScale) \div 2,
                                    (world_scale * PosScale) \div 2)>>,
        velocities |-> <<VelSeg("random", total_particles, 50)>>,
        types      |-> <<TypeSeg(total_particles)>>]

\* every number of clumps np.random.randint(2, 5) draws
ClumpCounts == ClumpsMin..(ClumpsMax - 1)

RECURSIVE SynthLoopReversed(_, _, _, _, _)
\* mutant of SynthLoop: each galaxy's particles go in front of the earlier ones
SynthLoopReversed(properties, i, count, acc, clumps) ==
    IF i >= count THEN {acc}
    ELSE UNION {
        SynthLoopReversed(properties, i + 1, count,
                          [positions  |-> r.positions \o acc.positions,
                           velocities |-> r.velocities \o acc.velocities,
                           types      |-> <<TypeSeg(Rows(r.positions))>> \o acc.types],
                          clumps) :
        r \in GenerateGalaxyParticlesResults(properties, i, clumps)}

RECURSIVE SynthLoop(_, _, _, _, _)
\* Step 4 of generate_universe from galaxy i (counted from 0) on: the particles
\* of each galaxy appended to all_positions, all_velocities, all_types (acc)
SynthLoop(properties, i, count, acc, clumps) ==
    IF i >= count THEN {acc}
    ELSE UNION {
        SynthLoop(properties, i + 1, count,
                  [positions  |-> acc.positions \o r.positions,
                   velocities |-> acc.velocities \o r.velocities,
                   types      |-> acc.types \o <<TypeSeg(Rows(r.positions))>>],
                  clumps) :
        r \in GenerateGalaxyParticlesResults(properties, i, clumps)}

\* all_positions, all_velocities, all_types before Step 4
NoArrays == [positions |-> <<>>, velocities |-> <<>>, types |-> <<>>]

\* the arrays generate_universe returns once place_galaxies has returned
\* placed and left properties in the placer: Step 4, or the fallback
UniverseArrays(placed, properties, num_galaxies, world_scale, clumps) ==
    IF Len(placed) = 0
    THEN {RandomUniverse(num_galaxies, world_scale)}
    ELSE SynthLoop(properties, 0, Len(placed), NoArrays, clumps)

-----------------------------------------------------------------------------
(* MockEngine: src/src/engine_bridge/mock_engine.py *)
(* Positions and velocities are integer triples, EngineScale units per world *)
(* unit; dt is in tenths.  An array is an object [id, rows]: two attributes  *)
(* holding the same id hold the same array, and an in-place update of one    *)
(* shows in the other.                                                       *)

EngineScale == 2 * 5

STAR == 0
PLANET == 1
BLACK_HOLE == 2

RECURSIVE ISqrtFrom(_, _)
ISqrtFrom(n, r) == IF (r + 1) * (r + 1) > n THEN r ELSE ISqrtFrom(n, r + 1)
\* the integer part of the square root
ISqrt(n) == ISqrtFrom(n, 0)

\* np.linalg.norm of a row, in fixed point
Norm(p) == ISqrt(Sq(p[1]) + Sq(p[2]) + Sq(p[3]))

\* mutant of Copy: the same array, not a copy
Alias(a, id) == a

\* a.copy(), the new array named id
Copy(a, id) == [id |-> id, rows |-> a.rows]

\* _generate_velocities for one row, vz drawn: r = max(norm(x, y), 0.1),
\* v_magnitude = 2 / sqrt(r), (vx, vy) = (-y, x) / r * v_magnitude
OrbitalVelocity(p, vz) ==
    LET r == Max2(ISqrt(Sq(p[1]) + Sq(p[2])), 1)
        v_magnitude == (2 * EngineScale * EngineScale) \div ISqrt(r * EngineScale)
    IN Vec((0 - p[2] * v_magnitude) \div r, (p[1] * v_magnitude) \div r, vz)

\* _generate_colors for one type: the colour, where drawn one of a sample
ColorsOf(ptype) ==
    IF ptype = STAR THEN {"yellow"}
    ELSE IF ptype = PLANET THEN {"earth"}
    ELSE {"purple"}

\* self.positions += self.velocities * dt, row by row
Moved(pos, vel, dt) ==
    [k \in 1..Len(pos) |->
        [a \in 1..3 |-> pos[k][a] + (vel[k][a] * dt) \div 10]]

\* self.velocities += acceleration * dt with
\* acceleration = -0.5 * positions / max(norm(positions), 1.0) ** 3
Accelerated(pos, vel, dt) ==
    [k \in 1..Len(vel) |->
        LET r == Max2(Norm(pos[k]), EngineScale)
        IN [a \in 1..3 |-> vel[k][a] - (50 * pos[k][a] * dt) \div (r * r * r)]]

\* the rows of an array after an in-place update of the array named id
InPlace(a, id, rows) ==
    IF a # None /\ a.id = id THEN [a EXCEPT !.rows = rows] ELSE a

\* np.delete(a, index): index counts from the end when negative
DeleteFails(a, index) == index >= Len(a) \/ index < 0 - Len(a)
Delete(a, index) ==
    LET i == IF index >= 0 THEN index + 1 ELSE Len(a) + index + 1
    IN SubSeq(a, 1, i - 1) \o SubSeq(a, i + 1, Len(a))

-----------------------------------------------------------------------------
(* ErrorLogger: src/src/core/error_logger.py *)
(* An ErrorRecord is [timestamp, component, severity]; an Optional argument  *)
(* is None or Some(value).                                                   *)

\* self.max_errors
max_errors == 1000

\* "if component:" - None and the empty string are false
Truthy(arg) == arg # None /\ arg[1] # ""

\* [e for e in filtered if e.component == component]
FilterComponent(a, component) ==
    LET F[k \in 0..Len(a)] ==
            IF k = 0 THEN <<>>
            ELSE IF a[k].component = component THEN Append(F[k - 1], a[k])
                 ELSE F[k - 1]
    IN F[Len(a)]

\* [e for e in filtered if e.severity == severity]
FilterSeverity(a, severity) ==
    LET F[k \in 0..Len(a)] ==
            IF k = 0 THEN <<>>
            ELSE IF a[k].severity = severity THEN Append(F[k - 1], a[k])
                 ELSE F[k - 1]
    IN F[Len(a)]

\* Python's a[start:]: a negative start counts from the end, and both are clipped
SliceFrom(a, start) ==
    LET first == IF start < 0 THEN Max2(Len(a) + start, 0)
                 ELSE IF start > Len(a) THEN Len(a) ELSE start
    IN SubSeq(a, first + 1, Len(a))

\* get_errors(component, severity, limit) on the records log
GetErrorsResult(log, component, severity, limit) ==
    LET by_component == IF Truthy(component)
                        THEN FilterComponent(log, component[1])
                        ELSE log
        filtered == IF severity # None
                    THEN FilterSeverity(by_component, severity[1])
                    ELSE by_component
    IN SliceFrom(filtered, 0 - limit)

-----------------------------------------------------------------------------
(* Inputs of the placer's callers *)

\* candidate positions: three points, A-B 1 unit apart, C 3 units from A
PointSeq ==
    <<Vec(0, 0, 0), Vec(PosScale, 0, 0), Vec(0, 3 * PosScale, 0)>>

\* candidate arrays of at most MaxCands rows (the shuffle makes the order of the
\* rows immaterial, so rows are listed in the order of PointSeq, repeats allowed)
CandidateArrays ==
    UNION {{[k \in 1..n |-> PointSeq[f[k]]] :
            f \in {g \in [1..n -> 1..Len(PointSeq)] :
                     \A i \in 1..n, j \in 1..n : i < j => g[i] <= g[j]}} :
        n \in 0..MaxCands}

NumGalaxiesArgs == {None} \cup {Some(n) : n \in 0..MaxCands}

\* A-B is exactly 1 unit: accepted at 1 unit, rejected at 2
MinSeparations == {PosScale, 2 * PosScale}

GalaxyIndices == (0 - MaxCands - 1)..(MaxCands + 1)

\* the volumes DensityField is built with
VolumeSizes == {Vec(s, 1, 1) : s \in 1..MaxDim} \cup {Vec(1, 2, 2)}

\* the values voxels take after generate: at the orchestrator's threshold, at
\* the default threshold, and the largest
FieldLevels == {50, 60, 100}

\* threshold=0.5 of the orchestrator and the default threshold=0.6
Thresholds == {50, 60}

\* falloff=0.4 of the orchestrator, the default falloff=0.3, and 0
Falloffs == {40, 30, 0}

\* the arguments of generate_universe
Seeds == {Some(42)}
UniverseSizes == {Vec(1, 1, 1), Vec(2, 1, 1), Vec(MaxDim, 1, 1)}
\* the values voxels take in generate_universe: at the threshold, and the largest
UniverseLevels == {50, 100}
WorldScales == {20}
\* the number of clumps an irregular galaxy of generate_universe is taken to draw
UniverseClumps == {ClumpsMin}

\* the seeds handed to generate
SeedValues == 1..MaxSeed

\* states of the global stream: 0 as left by earlier draws, s as left by
\* np.random.seed(s)
RngStates == 0..MaxSeed

\* the values voxels take in the fields of the seeded generate
NoiseLevels == {50, 100}

\* the volumes the seeded generate fills
NoiseSizes == {Vec(1, 1, 1), Vec(2, 1, 1)}

\* the vz = np.random.normal(0, 0.1) and the mass = np.random.lognormal(0, 1.5)
\* every particle is taken to draw
VzDraw == 1
MassDraw == 1

\* what initialize draws for one particle: a star at (1, 0, 0) or a black hole
\* at (0, 4, 0)
ParticleDraws ==
    {[position |-> Vec(EngineScale, 0, 0), type |-> STAR, color |-> "yellow"],
     [position |-> Vec(0, 4 * EngineScale, 0), type |-> BLACK_HOLE,
      color |-> "purple"]}

\* dt = 1.0
DtValues == {10}

\* the particle of test_add_particle
AddedPositions == {Vec(0, 0, 0)}
AddedVelocities == {Vec(EngineScale, 0, 0)}
AddedTypes == {PLANET}

RemoveIndices == (0 - 1)..(MaxParticles + 1)

\* the components and severities records are logged with
Components == {"GUI", "ENGINE"}
Severities == {"ERROR", "WARNING"}

\* the filters handed to get_errors
ComponentArgs == {None, Some("")} \cup {Some(c) : c \in Components}
SeverityArgs == {None} \cup {Some(v) : v \in Severities}

-----------------------------------------------------------------------------
(* State machine of one GalaxyPlacer *)

Idle == [op |-> "none", density_positions |-> <<>>, num_galaxies |-> None,
         min_separation |-> 0]

NoPlace == [called |-> FALSE, density_positions |-> <<>>, num_galaxies |-> None,
            min_separation |-> 0, selected_indices |-> <<>>,
            positions |-> <<>>, properties |-> <<>>]

NoParticles == [called |-> FALSE, galaxy_idx |-> 0, err |-> "none",
                num_clumps |-> 0, positions |-> <<>>, velocities |-> <<>>]

NoFieldCall == [called |-> FALSE, op |-> "none", err |-> "none", threshold |-> 0,
                max_positions |-> 0, seed |-> None, before |-> None,
                value |-> <<>>]

NoUniverse == [called |-> FALSE]

\* no return value waits for its caller
Quiet == ~pl.called /\ ~gp.called /\ ~df.called /\ ~gu.called

\* DensityField(): volume_size=(64, 64, 64)
DefaultVolume == Vec(64, 64, 64)

\* GalaxyPlacer.__init__
InitPlacer ==
    /\ galaxy_positions = <<>>
    /\ galaxy_properties = <<>>
    /\ pending = Idle
    /\ pl = NoPlace
    /\ gp = NoParticles

\* DensityField.__init__(volume_size), volume_size one of sizes
InitDensityField(sizes) ==
    /\ volume_size \in sizes
    /\ field = None
    /\ df = NoFieldCall

\* UniverseGenerator.__init__ (its GalaxyPlacer is InitPlacer's)
InitGenerator ==
    /\ generated_positions = None
    /\ generated_velocities = None
    /\ generated_types = None
    /\ gu = NoUniverse

\* import of density_field (NOISE_AVAILABLE one of backends) with the global
\* stream in one of states; no noise evaluated, nothing drawn, nothing returned
InitNoise(backends, states) ==
    /\ noise_available \in backends
    /\ rng \in states
    /\ pnoise3 = [s \in SeedValues |-> None]
    /\ random_stream = [r \in RngStates |-> None]
    /\ returned = [s \in SeedValues |-> None]

\* the rows of an array attribute (none while it is None)
Contents(a) == IF a = None THEN <<>> ELSE a.rows

\* what a caller of add_particle, remove_particle or reset can observe of the
\* engine before the call
Snapshot ==
    [initialized |-> initialized, particle_count |-> particle_count,
     positions |-> Contents(positions), velocities |-> Contents(velocities),
     masses |-> masses, types |-> types, colors |-> colors]

NoEngineCall ==
    [called |-> FALSE, op |-> "none", err |-> "none", particle_count |-> 0, dt |-> 0,
     index |-> 0, position |-> <<>>, velocity |-> <<>>, mass |-> 0,
     particle_type |-> 0, before |-> <<>>]

\* MockEngine.__init__ (masses, types and colors are None: no entry)
InitEngine ==
    /\ initialized = FALSE
    /\ particle_count = 0
    /\ positions = None
    /\ velocities = None
    /\ masses = <<>>
    /\ types = <<>>
    /\ colors = <<>>
    /\ initial_positions = None
    /\ initial_velocities = None
    /\ ops = 0
    /\ at_initialize = [positions |-> <<>>, velocities |-> <<>>]
    /\ en = NoEngineCall

NoLoggerCall == [called |-> FALSE, component |-> None, severity |-> None,
                 limit |-> 0, value |-> <<>>]

\* ErrorLogger.__init__
InitLogger ==
    /\ errors = <<>>
    /\ clock = 0
    /\ lg = NoLoggerCall

\* AppState.__init__: no particle data, no snapshot, paused; times in tenths
NewAppState ==
    [mode |-> "observation", is_playing |-> FALSE, current_time |-> 0,
     last_snapshot_time |-> 0, positions |-> None, velocities |-> None,
     masses |-> None, colors |-> None, types |-> None, snapshots |-> <<>>]

\* no MainWindow has been built
InitWindowIdle ==
    /\ app_state = NewAppState
    /\ update_timer = FALSE
    /\ timeline_is_playing = FALSE
    /\ event = "none"

\* ScenarioManager.__init__ on an empty data directory
EmptyDir == [settings |-> None, particles |-> None]

NoScenarioCall == [called |-> FALSE, ok |-> FALSE, before |-> NewAppState]

InitScenario ==
    /\ data_dir = EmptyDir
    /\ source = None
    /\ target = NewAppState
    /\ sc = NoScenarioCall

\* no pair of structures is being synthesized
NoSynthesis == [called |-> FALSE]

\* the application's objects where no application runs
InitGui == InitWindowIdle /\ InitScenario /\ sy = NoSynthesis

(* --- GalaxyPlacer --- *)

\* a caller invokes place_galaxies(density_positions, num_galaxies, min_separation)
CallPlaceGalaxies ==
    /\ pending.op = "none" /\ Quiet
    /\ \E density_positions \in CandidateArrays, num_galaxies \in NumGalaxiesArgs,
          min_separation \in MinSeparations :
            pending' = [op |-> "place_galaxies",
                        density_positions |-> density_positions,
                        num_galaxies |-> num_galaxies,
                        min_separation |-> min_separation]
    /\ UNCHANGED <<restVars, placerVars, fieldVars, universeVars>>

\* GalaxyPlacer.place_galaxies
PlaceGalaxies ==
    /\ pending.op = "place_galaxies"
    /\ \E r \in PlaceResults(pending.density_positions, pending.num_galaxies,
                             pending.min_separation) :
        /\ galaxy_positions' = IF r.kept THEN galaxy_positions ELSE r.positions
        /\ galaxy_properties' = IF r.kept THEN galaxy_properties ELSE r.properties
        /\ pl' = [called |-> TRUE,
                  density_positions |-> pending.density_positions,
                  num_galaxies |-> pending.num_galaxies,
                  min_separation |-> pending.min_separation,
                  selected_indices |-> r.selected_indices,
                  positions |-> r.positions,
                  properties |-> r.properties]
    /\ pending' = Idle
    /\ UNCHANGED <<restVars, gp, fieldVars, universeVars>>

\* GalaxyPlacer.generate_galaxy_particles(galaxy_idx)
GenerateGalaxyParticles ==
    /\ pending.op = "none" /\ Quiet
    /\ \E galaxy_idx \in GalaxyIndices :
       \E r \in GenerateGalaxyParticlesResults(galaxy_properties, galaxy_idx,
                                               ClumpCounts) :
            gp' = [called |-> TRUE, galaxy_idx |-> galaxy_idx, err |-> r.err,
                   num_clumps |-> r.num_clumps,
                   positions |-> r.positions, velocities |-> r.velocities]
    /\ UNCHANGED <<restVars, galaxy_positions, galaxy_properties, pending, pl, fieldVars,
                   universeVars>>

\* the caller takes the value a method returned
Return ==
    /\ ~Quiet
    /\ pl' = NoPlace
    /\ gp' = NoParticles
    /\ df' = NoFieldCall
    /\ gu' = NoUniverse
    /\ UNCHANGED <<restVars, galaxy_positions, galaxy_properties, pending, volume_size, field,
                   generated_positions, generated_velocities, generated_types>>

NextPlacer ==
    \/ CallPlaceGalaxies
    \/ PlaceGalaxies
    \/ GenerateGalaxyParticles
    \/ Return

InitPlacerSpec == InitGui /\ InitLogger /\ InitEngine /\ InitPlacer /\ InitDensityField({DefaultVolume}) /\ InitGenerator
    /\ InitNoise({TRUE}, {0})

SpecPlacer == InitPlacerSpec /\ [][NextPlacer]_vars

(* --- DensityField --- *)

\* DensityField.generate
Generate ==
    /\ pending.op = "none" /\ Quiet
    /\ \E f \in GenerateResults(volume_size, FieldLevels) :
        /\ field' = f
        /\ df' = [NoFieldCall EXCEPT !.called = TRUE, !.op = "generate", !.value = f]
    /\ UNCHANGED <<restVars, volume_size, placerVars, universeVars, pending>>

\* DensityField.apply_threshold(threshold)
ApplyThreshold ==
    /\ pending.op = "none" /\ Quiet
    /\ \E threshold \in Thresholds :
        LET r == ApplyThresholdResult(field, volume_size, threshold)
        IN df' = [NoFieldCall EXCEPT !.called = TRUE, !.op = "apply_threshold",
                                     !.threshold = threshold, !.err = r.err,
                                     !.value = r.value]
    /\ UNCHANGED <<restVars, volume_size, field, placerVars, universeVars, pending>>

\* DensityField.get_high_density_positions(threshold, max_positions)
GetHighDensityPositions ==
    /\ pending.op = "none" /\ Quiet
    /\ \E threshold \in Thresholds, max_positions \in 0..MaxPositions :
        LET call == [NoFieldCall EXCEPT !.called = TRUE,
                                        !.op = "get_high_density_positions",
                                        !.threshold = threshold,
                                        !.max_positions = max_positions]
        IN IF field = None
           THEN df' = [call EXCEPT !.err = "ValueError"]
           ELSE \E h \in HighDensityResults(field, volume_size, threshold,
                                            max_positions) :
                    df' = [call EXCEPT !.value = h]
    /\ UNCHANGED <<restVars, volume_size, field, placerVars, universeVars, pending>>

\* DensityField.add_gradient(center, falloff)
AddGradientCall ==
    /\ pending.op = "none" /\ Quiet
    /\ \E center \in {CenterOf(volume_size), Origin}, falloff \in Falloffs :
        IF field = None
        THEN /\ df' = [NoFieldCall EXCEPT !.called = TRUE, !.op = "add_gradient",
                                          !.err = "ValueError"]
             /\ field' = field
        ELSE /\ df' = [NoFieldCall EXCEPT !.called = TRUE, !.op = "add_gradient"]
             /\ field' = AddGradient(field, volume_size, center, falloff)
    /\ UNCHANGED <<restVars, volume_size, placerVars, universeVars, pending>>

NextField ==
    \/ Generate
    \/ ApplyThreshold
    \/ GetHighDensityPositions
    \/ AddGradientCall
    \/ Return

InitFieldSpec == InitGui /\ InitLogger /\ InitEngine /\ InitPlacer /\ InitDensityField(VolumeSizes) /\ InitGenerator
    /\ InitNoise({TRUE}, {0})

SpecField == InitFieldSpec /\ [][NextField]_vars

(* --- DensityField.generate and the random stream --- *)

\* mutant of SeededStream: the fallback draws without seeding the stream
UnseededStream(r, seed) == r

\* np.random.seed(seed): the state of the stream r after it
SeededStream(r, seed) == seed

\* what a function evaluated (drawn) at key gives: what it gave before, or, the
\* first time, any field of the volume
Evaluations(memo, key, size) ==
    IF memo[key] = None THEN GenerateResults(size, NoiseLevels) ELSE {memo[key]}

\* the field an earlier generate(seed_arg) returned (None: there was none)
Before(seed_arg) == IF seed_arg = None THEN None ELSE returned[seed_arg[1]]

\* returned once generate(seed_arg) has returned f
Record(seed_arg, f) ==
    IF seed_arg = None \/ returned[seed_arg[1]] # None THEN returned
    ELSE [returned EXCEPT ![seed_arg[1]] = f]

\* DensityField.generate(seed): with the noise package each voxel is
\* pnoise3(..., base=seed); without it the stream is seeded and drawn from
GenerateSeeded ==
    /\ pending.op = "none" /\ Quiet
    /\ \E seed_arg \in {None} \cup {Some(s) : s \in SeedValues} :
       \E seed \in (IF seed_arg = None THEN SeedValues ELSE {seed_arg[1]}) :
        IF noise_available
        THEN \E f \in Evaluations(pnoise3, seed, volume_size) :
                /\ pnoise3' = [pnoise3 EXCEPT ![seed] = f]
                /\ field' = f
                /\ df' = [NoFieldCall EXCEPT !.called = TRUE, !.op = "generate",
                                             !.seed = seed_arg, !.value = f,
                                             !.before = Before(seed_arg)]
                /\ returned' = Record(seed_arg, f)
                /\ IF seed_arg = None THEN rng' = 0 ELSE rng' = rng
                /\ UNCHANGED random_stream
        ELSE LET r == SeededStream(IF seed_arg = None THEN 0 ELSE rng, seed)
             IN \E f \in Evaluations(random_stream, r, volume_size) :
                /\ random_stream' = [random_stream EXCEPT ![r] = f]
                /\ field' = f
                /\ df' = [NoFieldCall EXCEPT !.called = TRUE, !.op = "generate",
                                             !.seed = seed_arg, !.value = f,
                                             !.before = Before(seed_arg)]
                /\ returned' = Record(seed_arg, f)
                /\ rng' = 0
                /\ UNCHANGED pnoise3
    /\ UNCHANGED <<noise_available, volume_size, placerVars, universeVars, pending,
                   engineVars, loggerVars, guiVars>>

\* any other operation that draws from, or seeds, the global stream
DrawFromStream ==
    /\ pending.op = "none" /\ Quiet
    /\ \E r \in RngStates : r # rng /\ rng' = r
    /\ UNCHANGED <<noise_available, pnoise3, random_stream, returned, placerVars,
                   fieldVars, universeVars, pending, engineVars, loggerVars, guiVars>>

NextNoise ==
    \/ GenerateSeeded
    \/ DrawFromStream
    \/ Return

InitNoiseSpec ==
    /\ InitGui /\ InitLogger /\ InitEngine /\ InitPlacer /\ InitDensityField(NoiseSizes)
    /\ InitGenerator
    /\ InitNoise(BOOLEAN, RngStates)

SpecNoise == InitNoiseSpec /\ [][NextNoise]_vars

(* --- UniverseGenerator --- *)

\* a caller invokes generate_universe(seed, volume_size, num_galaxies, world_scale)
CallGenerateUniverse ==
    /\ pending.op = "none" /\ Quiet
    /\ \E seed \in Seeds, size \in UniverseSizes, num_galaxies \in 0..MaxGalaxies,
          world_scale \in WorldScales :
            pending' = [op |-> "generate_universe", seed |-> seed,
                        volume_size |-> size, num_galaxies |-> num_galaxies,
                        world_scale |-> world_scale]
    /\ UNCHANGED <<restVars, placerVars, fieldVars, universeVars>>

\* UniverseGenerator.generate_universe
GenerateUniverse ==
    /\ pending.op = "generate_universe"
    /\ \E g \in GenerateResults(pending.volume_size, UniverseLevels) :
        LET size == pending.volume_size
            num_galaxies == pending.num_galaxies
            world_scale == pending.world_scale
            f == ShapedField(g, size)
        IN \E high_density_positions \in
                HighDensityResults(f, size, Threshold, num_galaxies * CandidateFactor) :
            LET world_positions ==
                    NormalizePositions(size, high_density_positions, world_scale)
            IN \E r \in PlaceResults(world_positions, Some(num_galaxies),
                                     MinSeparationOf(world_scale)) :
                LET held_positions ==
                        IF r.kept THEN galaxy_positions ELSE r.positions
                    held_properties ==
                        IF r.kept THEN galaxy_properties ELSE r.properties
                IN \E a \in UniverseArrays(r.positions, held_properties,
                                           num_galaxies, world_scale,
                                           UniverseClumps) :
                    /\ galaxy_positions' = held_positions
                    /\ galaxy_properties' = held_properties
                    /\ generated_positions' = a.positions
                    /\ generated_velocities' = a.velocities
                    /\ generated_types' = a.types
                    /\ gu' = [called |-> TRUE, err |-> "none",
                              seed |-> pending.seed,
                              volume_size |-> size,
                              num_galaxies |-> num_galaxies,
                              world_scale |-> world_scale,
                              generated |-> g,
                              field |-> f,
                              max_positions |-> num_galaxies * CandidateFactor,
                              min_separation |-> MinSeparationOf(world_scale),
                              high_density_positions |-> high_density_positions,
                              world_positions |-> world_positions,
                              placed_positions |-> r.positions,
                              placed_properties |-> r.properties,
                              fallback |-> (Len(r.positions) = 0),
                              positions |-> a.positions,
                              velocities |-> a.velocities,
                              types |-> a.types]
    /\ pending' = Idle
    /\ UNCHANGED <<restVars, pl, gp, fieldVars>>

NextUniverse ==
    \/ CallGenerateUniverse
    \/ GenerateUniverse
    \/ Return

InitUniverseSpec == InitGui /\ InitLogger /\ InitEngine /\ InitPlacer /\ InitDensityField({DefaultVolume}) /\ InitGenerator
    /\ InitNoise({TRUE}, {0})

SpecUniverse == InitUniverseSpec /\ [][NextUniverse]_vars

(* --- MockEngine --- *)

\* MockEngine.initialize(particle_count)
Initialize ==
    /\ ~en.called
    /\ \E n \in 0..MaxParticles :
       \E d \in [1..n -> ParticleDraws] :
        LET pos == [k \in 1..n |-> d[k].position]
            ty == [k \in 1..n |-> d[k].type]
            col == [k \in 1..n |-> d[k].color]
            vel == [k \in 1..n |-> OrbitalVelocity(pos[k], VzDraw)]
            p == [id |-> "positions", rows |-> pos]
            v == [id |-> "velocities", rows |-> vel]
        IN /\ particle_count' = n
           /\ positions' = p
           /\ velocities' = v
           /\ masses' = [k \in 1..n |-> MassDraw]
           /\ types' = ty
           /\ colors' = col
           /\ initial_positions' = Copy(p, "initial_positions")
           /\ initial_velocities' = Copy(v, "initial_velocities")
           /\ initialized' = TRUE
           /\ ops' = 0
           /\ at_initialize' = [positions |-> pos, velocities |-> vel]
           /\ en' = [NoEngineCall EXCEPT !.called = TRUE, !.op = "initialize",
                                         !.particle_count = n]
    /\ UNCHANGED procGenVars

\* MockEngine.step(dt)
Step ==
    /\ ~en.called
    /\ \E dt \in DtValues :
        LET call == [NoEngineCall EXCEPT !.called = TRUE, !.op = "step", !.dt = dt]
        IN IF ~initialized
           THEN /\ en' = [call EXCEPT !.err = "RuntimeError"]
                /\ UNCHANGED <<positions, velocities, initial_positions,
                               initial_velocities, ops>>
           ELSE /\ ops < MaxOps
                /\ LET pos == Moved(positions.rows, velocities.rows, dt)
                       vel == Accelerated(pos, velocities.rows, dt)
                   IN /\ positions' = InPlace(positions, positions.id, pos)
                      /\ initial_positions' = InPlace(initial_positions, positions.id, pos)
                      /\ velocities' = InPlace(velocities, velocities.id, vel)
                      /\ initial_velocities' =
                            InPlace(initial_velocities, velocities.id, vel)
                /\ ops' = ops + 1
                /\ en' = call
    /\ UNCHANGED <<initialized, particle_count, masses, types, colors, at_initialize,
                   procGenVars>>

\* MockEngine.add_particle(position, velocity, mass, particle_type)
AddParticle ==
    /\ ~en.called
    /\ \E position \in AddedPositions, velocity \in AddedVelocities,
          particle_type \in AddedTypes :
        LET call == [NoEngineCall EXCEPT !.called = TRUE, !.op = "add_particle",
                                         !.position = position, !.velocity = velocity,
                                         !.mass = MassDraw,
                                         !.particle_type = particle_type,
                                         !.before = Snapshot]
        IN IF ~initialized
           THEN /\ en' = [call EXCEPT !.err = "RuntimeError"]
                /\ UNCHANGED <<positions, velocities, masses, types, colors,
                               particle_count, ops>>
           ELSE /\ ops < MaxOps
                /\ ops' = ops + 1
                /\ positions' = [id |-> "positions",
                                 rows |-> Append(positions.rows, position)]
                /\ velocities' = [id |-> "velocities",
                                  rows |-> Append(velocities.rows, velocity)]
                /\ masses' = Append(masses, MassDraw)
                /\ types' = Append(types, particle_type)
                /\ \E new_color \in ColorsOf(particle_type) :
                        colors' = Append(colors, new_color)
                /\ particle_count' = particle_count + 1
                /\ en' = call
    /\ UNCHANGED <<initialized, initial_positions, initial_velocities,
                   at_initialize, procGenVars>>

\* MockEngine.remove_particle(index): the np.delete calls run in order, and the
\* first that fails ends the method
RemoveParticle ==
    /\ ~en.called
    /\ \E index \in RemoveIndices :
        LET call == [NoEngineCall EXCEPT !.called = TRUE, !.op = "remove_particle",
                                         !.index = index, !.before = Snapshot]
        IN IF ~initialized \/ index >= particle_count
           THEN /\ en' = [call EXCEPT !.err = "RuntimeError"]
                /\ UNCHANGED <<positions, velocities, masses, types, colors,
                               particle_count, ops>>
           ELSE LET f1 == DeleteFails(positions.rows, index)
                    f2 == f1 \/ DeleteFails(velocities.rows, index)
                    f3 == f2 \/ DeleteFails(masses, index)
                    f4 == f3 \/ DeleteFails(types, index)
                    f5 == f4 \/ DeleteFails(colors, index)
                IN /\ ops < MaxOps
                   /\ ops' = ops + 1
                   /\ positions' = IF f1 THEN positions
                                   ELSE [id |-> "positions",
                                         rows |-> Delete(positions.rows, index)]
                   /\ velocities' = IF f2 THEN velocities
                                    ELSE [id |-> "velocities",
                                          rows |-> Delete(velocities.rows, index)]
                   /\ masses' = IF f3 THEN masses ELSE Delete(masses, index)
                   /\ types' = IF f4 THEN types ELSE Delete(types, index)
                   /\ colors' = IF f5 THEN colors ELSE Delete(colors, index)
                   /\ particle_count' = IF f5 THEN particle_count
                                        ELSE particle_count - 1
                   /\ en' = [call EXCEPT !.err = IF f5 THEN "IndexError" ELSE "none"]
    /\ UNCHANGED <<initialized, initial_positions, initial_velocities,
                   at_initialize, procGenVars>>

\* MockEngine.reset
Reset ==
    /\ ~en.called
    /\ IF initial_positions # None
       THEN /\ ops < MaxOps
            /\ ops' = ops + 1
            /\ positions' = Copy(initial_positions, "positions")
            /\ velocities' = Copy(initial_velocities, "velocities")
       ELSE UNCHANGED <<positions, velocities, ops>>
    /\ en' = [NoEngineCall EXCEPT !.called = TRUE, !.op = "reset", !.before = Snapshot]
    /\ UNCHANGED <<initialized, particle_count, masses, types, colors,
                   initial_positions, initial_velocities, at_initialize,
                   procGenVars>>

\* the caller takes the outcome of a MockEngine method
TakeResult ==
    /\ en.called
    /\ en' = NoEngineCall
    /\ UNCHANGED <<initialized, particle_count, positions, velocities, masses, types,
                   colors, initial_positions, initial_velocities, ops,
                   at_initialize, procGenVars>>

NextEngine ==
    \/ Initialize
    \/ Step
    \/ AddParticle
    \/ RemoveParticle
    \/ Reset
    \/ TakeResult

InitEngineSpec ==
    /\ InitGui /\ InitLogger /\ InitEngine /\ InitPlacer /\ InitDensityField({DefaultVolume})
    /\ InitGenerator /\ InitNoise({TRUE}, {0})

SpecEngine == InitEngineSpec /\ [][NextEngine]_vars

(* --- ErrorLogger --- *)

\* what MockEngine and ErrorLogger both leave alone
otherVars == <<placerVars, fieldVars, universeVars, pending, noiseVars, engineVars,
               guiVars>>

\* ErrorLogger.log_error(message, component, severity)
LogError ==
    /\ ~lg.called
    /\ clock < MaxLogged
    /\ \E component \in Components, severity \in Severities :
        LET record == [timestamp |-> clock + 1, component |-> component,
                       severity |-> severity]
            appended == Append(errors, record)
        IN errors' = IF Len(appended) > max_errors THEN Tail(appended) ELSE appended
    /\ clock' = clock + 1
    /\ UNCHANGED <<lg, otherVars>>

\* ErrorLogger.clear_errors
ClearErrors ==
    /\ ~lg.called
    /\ errors # <<>>
    /\ errors' = <<>>
    /\ UNCHANGED <<clock, lg, otherVars>>

\* ErrorLogger.get_errors(component, severity, limit)
GetErrors ==
    /\ ~lg.called
    /\ \E component \in ComponentArgs, severity \in SeverityArgs,
          limit \in 0..MaxLogged :
        lg' = [called |-> TRUE, component |-> component, severity |-> severity,
               limit |-> limit,
               value |-> GetErrorsResult(errors, component, severity, limit)]
    /\ UNCHANGED <<errors, clock, otherVars>>

\* the caller takes the list get_errors returned
TakeErrors ==
    /\ lg.called
    /\ lg' = NoLoggerCall
    /\ UNCHANGED <<errors, clock, otherVars>>

NextLogger ==
    \/ LogError
    \/ ClearErrors
    \/ GetErrors
    \/ TakeErrors

InitLoggerSpec ==
    /\ InitGui /\ InitLogger /\ InitEngine /\ InitPlacer /\ InitDensityField({DefaultVolume})
    /\ InitGenerator /\ InitNoise({TRUE}, {0})

SpecLogger == InitLoggerSpec /\ [][NextLogger]_vars

-----------------------------------------------------------------------------
(* MainWindow: src/src/gui/main_window.py, with TimelineWidget and AppState *)

\* self.snapshot_interval = 1.0, in tenths
snapshot_interval == 10

\* a row of the arrays generate_universe returns to init_engine
UniversePosition == Vec(2 * EngineScale, 0, 0)
UniverseVelocity == Vec(0, EngineScale, 0)

\* the results of generate_universe in init_engine, cut down to at most
\* MaxParticles rows
Universes ==
    {[positions  |-> [k \in 1..n |-> UniversePosition],
      velocities |-> [k \in 1..n |-> UniverseVelocity],
      types      |-> [k \in 1..n |-> STAR]] : n \in 1..MaxParticles}

\* what on_spawn_object draws and maps: np.random.uniform(-20, 20, 3),
\* np.random.uniform(-1, 1, 3), type_map
SpawnPositions == {Vec(0, 0, 0)}
SpawnVelocities == {Vec(0 - EngineScale, 0, 0)}
ObjectTypes == {"planet"}
TypeMap(object_type) ==
    IF object_type = "star" THEN STAR
    ELSE IF object_type = "planet" THEN PLANET
    ELSE IF object_type = "black_hole" THEN BLACK_HOLE
    ELSE STAR

\* an attribute array of the engine as an array object
Array(id, rows) == [id |-> id, rows |-> rows]

\* AppState.take_snapshot on a
TakeSnapshot(a) ==
    IF a.positions = None THEN a
    ELSE [a EXCEPT !.snapshots =
            Append(a.snapshots,
                   [time |-> a.current_time,
                    positions |-> Some(a.positions.rows),
                    velocities |-> IF a.velocities = None THEN None
                                   ELSE Some(a.velocities.rows),
                    masses |-> IF a.masses = None THEN None ELSE Some(a.masses.rows),
                    colors |-> IF a.colors = None THEN None ELSE Some(a.colors.rows),
                    types |-> IF a.types = None THEN None ELSE Some(a.types.rows)])]

\* AppState.update_time(dt) on a, simulation_speed 1.0
UpdateTime(a, dt) ==
    LET b == [a EXCEPT !.current_time = a.current_time + dt]
    IN IF b.current_time - b.last_snapshot_time >= snapshot_interval
       THEN [TakeSnapshot(b) EXCEPT !.last_snapshot_time = b.current_time]
       ELSE b

\* AppState.reset on a
ResetAppState(a) ==
    [a EXCEPT !.is_playing = FALSE, !.current_time = 0, !.last_snapshot_time = 0,
              !.snapshots = <<>>]

\* the three play indicators: TimelineWidget.is_playing, AppState.is_playing,
\* update_timer running
PlayState(timeline, app, timer) == [timeline |-> timeline, app |-> app, timer |-> timer]

\* MainWindow.on_play_pause(is_playing)
OnPlayPause(w, is_playing) == [w EXCEPT !.app = is_playing, !.timer = is_playing]

\* TimelineWidget.on_play_pause: toggles and emits play_pause_clicked
TimelineOnPlayPause(w) ==
    OnPlayPause([w EXCEPT !.timeline = ~w.timeline], ~w.timeline)

\* A set_playing that leaves the widget as it is
SetPlayingSkipped(w, playing) == w

\* TimelineWidget.set_playing(playing)
SetPlaying(w, playing) ==
    IF w.timeline # playing THEN TimelineOnPlayPause(w) ELSE w

\* what init_engine leaves in the generator, the engine and the particle
\* attributes of app_state: generate_universe, engine.initialize(len(positions))
\* with its own draws, set_positions, set_velocities, then the five getters
InitEngineOutcomes ==
    UNION {
      {LET n == Len(u.positions)
           sphere == [k \in 1..n |-> d[k].position]
           orbital == [k \in 1..n |-> OrbitalVelocity(sphere[k], VzDraw)]
       IN [generated_positions  |-> Array("generated_positions", u.positions),
           generated_velocities |-> Array("generated_velocities", u.velocities),
           generated_types      |-> Array("generated_types", u.types),
           particle_count       |-> n,
           positions  |-> Copy(Array("generated_positions", u.positions), "positions"),
           velocities |-> Copy(Array("generated_velocities", u.velocities),
                               "velocities"),
           masses     |-> [k \in 1..n |-> MassDraw],
           types      |-> [k \in 1..n |-> d[k].type],
           colors     |-> [k \in 1..n |-> d[k].color],
           initial_positions  |-> Copy(Array("positions", sphere), "initial_positions"),
           initial_velocities |-> Copy(Array("velocities", orbital),
                                       "initial_velocities"),
           at_initialize |-> [positions |-> sphere, velocities |-> orbital]] :
       d \in [1..Len(u.positions) -> ParticleDraws]} :
      u \in Universes}

\* the particle attributes of a after init_engine with outcome o
Populated(a, o) ==
    [a EXCEPT !.positions = o.positions, !.velocities = o.velocities,
              !.masses = Array("masses", o.masses),
              !.colors = Array("colors", o.colors),
              !.types = Array("types", o.types)]

\* MainWindow.__init__: init_ui, then init_engine
InitWindow ==
    /\ \E o \in InitEngineOutcomes :
        /\ generated_positions = o.generated_positions
        /\ generated_velocities = o.generated_velocities
        /\ generated_types = o.generated_types
        /\ particle_count = o.particle_count
        /\ positions = o.positions
        /\ velocities = o.velocities
        /\ masses = o.masses
        /\ types = o.types
        /\ colors = o.colors
        /\ initial_positions = o.initial_positions
        /\ initial_velocities = o.initial_velocities
        /\ at_initialize = o.at_initialize
        /\ app_state = Populated(NewAppState, o)
    /\ initialized = TRUE
    /\ ops = 0
    /\ en = NoEngineCall
    /\ gu = NoUniverse
    /\ update_timer = FALSE
    /\ timeline_is_playing = FALSE
    /\ event = "init_engine"

\* what MainWindow's handlers leave alone
backstageVars == <<placerVars, fieldVars, pending, gu, noiseVars, loggerVars, en,
                   initialized, scenarioVars, sy>>

\* the play/pause button or the space bar: TimelineWidget.on_play_pause, whose
\* signal runs MainWindow.on_play_pause
PlayPauseClicked ==
    /\ LET w == TimelineOnPlayPause(PlayState(timeline_is_playing,
                                              app_state.is_playing, update_timer))
       IN /\ timeline_is_playing' = w.timeline
          /\ app_state' = [app_state EXCEPT !.is_playing = w.app]
          /\ update_timer' = w.timer
    /\ event' = "play_pause"
    /\ UNCHANGED <<backstageVars, generated_positions, generated_velocities,
                   generated_types, particle_count, positions, velocities, masses,
                   types, colors, initial_positions, initial_velocities, ops,
                   at_initialize>>

\* the reset button or Ctrl+R: TimelineWidget.on_reset, whose signal runs
\* MainWindow.on_reset
ResetClicked ==
    /\ timeline_is_playing' = FALSE
    /\ update_timer' = FALSE
    /\ IF initial_positions # None
       THEN /\ positions' = Copy(initial_positions, "positions")
            /\ velocities' = Copy(initial_velocities, "velocities")
       ELSE UNCHANGED <<positions, velocities>>
    /\ app_state' = [ResetAppState(app_state) EXCEPT !.positions = positions',
                                                     !.velocities = velocities']
    /\ event' = "reset"
    /\ UNCHANGED <<backstageVars, generated_positions, generated_velocities,
                   generated_types, particle_count, masses, types, colors,
                   initial_positions, initial_velocities, ops, at_initialize>>

\* File > New Simulation: MainWindow.on_new_simulation
NewSimulation ==
    /\ \E o \in InitEngineOutcomes :
        LET w == SetPlaying(PlayState(timeline_is_playing, FALSE, FALSE), FALSE)
        IN /\ generated_positions' = o.generated_positions
           /\ generated_velocities' = o.generated_velocities
           /\ generated_types' = o.generated_types
           /\ particle_count' = o.particle_count
           /\ positions' = o.positions
           /\ velocities' = o.velocities
           /\ masses' = o.masses
           /\ types' = o.types
           /\ colors' = o.colors
           /\ initial_positions' = o.initial_positions
           /\ initial_velocities' = o.initial_velocities
           /\ at_initialize' = o.at_initialize
           /\ app_state' = [Populated(ResetAppState(app_state), o)
                                EXCEPT !.is_playing = w.app]
           /\ update_timer' = w.timer
           /\ timeline_is_playing' = w.timeline
    /\ ops' = 0
    /\ event' = "new_simulation"
    /\ UNCHANGED backstageVars

\* the update timer fires: MainWindow.update_simulation
TimerTick ==
    /\ update_timer
    /\ IF ~app_state.is_playing
       THEN UNCHANGED <<positions, velocities, initial_positions, initial_velocities,
                        ops, app_state>>
       ELSE \E dt \in DtValues :
            LET pos == Moved(positions.rows, velocities.rows, dt)
                vel == Accelerated(pos, velocities.rows, dt)
            IN /\ ops < MaxOps
               /\ ops' = ops + 1
               /\ positions' = InPlace(positions, positions.id, pos)
               /\ initial_positions' = InPlace(initial_positions, positions.id, pos)
               /\ velocities' = InPlace(velocities, velocities.id, vel)
               /\ initial_velocities' = InPlace(initial_velocities, velocities.id, vel)
               /\ app_state' = UpdateTime([app_state EXCEPT !.positions = positions',
                                                            !.velocities = velocities'],
                                          dt)
    /\ event' = "tick"
    /\ UNCHANGED <<backstageVars, generated_positions, generated_velocities,
                   generated_types, particle_count, masses, types, colors,
                   at_initialize, update_timer, timeline_is_playing>>

\* the mode selector of the control panel: MainWindow.on_mode_changed(mode)
ModeChanged ==
    /\ \E mode \in {"observation", "sandbox"} :
        /\ mode # app_state.mode
        /\ app_state' = [app_state EXCEPT !.mode = mode]
    /\ event' = "mode_changed"
    /\ UNCHANGED <<backstageVars, generated_positions, generated_velocities,
                   generated_types, particle_count, positions, velocities, masses,
                   types, colors, initial_positions, initial_velocities, ops,
                   at_initialize, update_timer, timeline_is_playing>>

\* a spawn button of the control panel: MainWindow.on_spawn_object(object_type)
SpawnObject ==
    /\ \E object_type \in ObjectTypes, position \in SpawnPositions,
          velocity \in SpawnVelocities :
        IF app_state.mode # "sandbox"
        THEN UNCHANGED <<positions, velocities, masses, types, colors,
                         particle_count, ops, app_state>>
        ELSE LET particle_type == TypeMap(object_type)
             IN /\ ops < MaxOps
                /\ ops' = ops + 1
                /\ positions' = Array("positions", Append(positions.rows, position))
                /\ velocities' = Array("velocities", Append(velocities.rows, velocity))
                /\ masses' = Append(masses, MassDraw)
                /\ types' = Append(types, particle_type)
                /\ \E new_color \in ColorsOf(particle_type) :
                        colors' = Append(colors, new_color)
                /\ particle_count' = particle_count + 1
                /\ app_state' = [app_state EXCEPT !.positions = positions',
                                                  !.velocities = velocities',
                                                  !.colors = Array("colors", colors'),
                                                  !.types = Array("types", types')]
    /\ event' = "spawn"
    /\ UNCHANGED <<backstageVars, generated_positions, generated_velocities,
                   generated_types, initial_positions, initial_velocities,
                   at_initialize, update_timer, timeline_is_playing>>

NextWindow ==
    \/ PlayPauseClicked
    \/ ResetClicked
    \/ NewSimulation
    \/ TimerTick
    \/ ModeChanged
    \/ SpawnObject

InitWindowSpec ==
    /\ InitWindow /\ InitScenario /\ sy = NoSynthesis /\ InitLogger /\ InitPlacer /\ InitDensityField({DefaultVolume})
    /\ InitNoise({TRUE}, {0})

SpecWindow == InitWindowSpec /\ [][NextWindow]_vars

-----------------------------------------------------------------------------
(* ScenarioManager: src/src/core/scenario_manager.py                         *)
(* A settings file is the dict json.dump wrote; a particle file is its       *)
(* datasets, each None (absent) or Some(rows), and its snapshots group, None *)
(* (absent) or Some(key -> group).                                           *)

\* the decimal digits of i < 100, as str(i) writes them
Digits(i) == IF i < 10 THEN <<i>> ELSE <<i \div 10, i % 10>>

\* string order on digit strings: a < b
LexLess(a, b) ==
    \/ \E k \in 1..Len(a) :
            /\ k <= Len(b)
            /\ \A j \in 1..(k - 1) : a[j] = b[j]
            /\ a[k] < b[k]
    \/ /\ Len(a) < Len(b)
       /\ \A j \in 1..Len(a) : a[j] = b[j]

\* sorted(snapshots_group.keys()) for the keys snapshot_0 .. snapshot_(n-1): the
\* snapshot numbers in the string order of their names
SortedKeys(n) ==
    [k \in 1..n |->
        CHOOSE i \in 0..(n - 1) :
            Cardinality({j \in 0..(n - 1) : LexLess(Digits(j), Digits(i))}) = k - 1]

\* the rows of an Optional array attribute, as a dataset to write
Dataset(a) == IF a = None THEN None ELSE Some(a.rows)

\* the files after save_scenario(app_state, name) on the directory dir
SaveScenarioFiles(dir, a) ==
    LET settings == [mode |-> a.mode, current_time |-> a.current_time,
                     particle_count |-> Len(Contents(a.positions))]
        snapshots_group ==
            IF a.snapshots = <<>> THEN None
            ELSE Some([i \in 0..(Len(a.snapshots) - 1) |->
                        [time |-> a.snapshots[i + 1].time,
                         positions |-> a.snapshots[i + 1].positions,
                         velocities |-> a.snapshots[i + 1].velocities]])
    IN [settings |-> Some(settings),
        particles |-> IF a.positions = None THEN dir.particles
                      ELSE Some([positions |-> Dataset(a.positions),
                                 velocities |-> Dataset(a.velocities),
                                 masses |-> Dataset(a.masses),
                                 colors |-> Dataset(a.colors),
                                 types |-> Dataset(a.types),
                                 snapshots |-> snapshots_group])]

\* an attribute after "if key in f: attribute = f[key][:]"
Read(old, dataset, id) == IF dataset = None THEN old ELSE Array(id, dataset[1])

\* the snapshot list load_scenario builds from a snapshots group
LoadedSnapshots(group) ==
    LET n == Cardinality(DOMAIN group)
        keys == SortedKeys(n)
    IN [k \in 1..n |->
            [time |-> group[keys[k]].time,
             positions |-> group[keys[k]].positions,
             velocities |-> group[keys[k]].velocities,
             masses |-> None, colors |-> None, types |-> None]]

\* load_scenario(name, app_state) on the directory dir: the return value and
\* app_state afterwards
LoadScenarioResult(dir, a) ==
    IF dir.settings = None THEN [ok |-> FALSE, state |-> a]
    ELSE LET b == [a EXCEPT !.mode = dir.settings[1].mode,
                            !.current_time = dir.settings[1].current_time]
         IN IF dir.particles = None THEN [ok |-> TRUE, state |-> b]
            ELSE LET f == dir.particles[1]
                 IN [ok |-> TRUE,
                     state |->
                        [b EXCEPT
                           !.positions = Array("positions", f.positions[1]),
                           !.velocities = Read(b.velocities, f.velocities, "velocities"),
                           !.masses = Read(b.masses, f.masses, "masses"),
                           !.colors = Read(b.colors, f.colors, "colors"),
                           !.types = Read(b.types, f.types, "types"),
                           !.snapshots = IF f.snapshots = None THEN b.snapshots
                                         ELSE LoadedSnapshots(f.snapshots[1])]]

\* particle data an AppState can hold: none, or n particles
ParticleData ==
    {[positions |-> None, velocities |-> None, masses |-> None, colors |-> None,
      types |-> None]}
    \cup {[positions  |-> Array("positions", [k \in 1..n |-> UniversePosition]),
           velocities |-> Array("velocities", [k \in 1..n |-> UniverseVelocity]),
           masses     |-> Array("masses", [k \in 1..n |-> MassDraw]),
           colors     |-> Array("colors", [k \in 1..n |-> "yellow"]),
           types      |-> Array("types", [k \in 1..n |-> STAR])] : n \in 1..2}

\* the numbers of snapshots taken: none, one, and enough for two-digit keys
SnapshotCounts == {0, 1, MaxSnapshots}

\* the AppStates handed to save_scenario and load_scenario: snapshot k was
\* taken at time k * snapshot_interval and moved one unit further each time
AppStates ==
    {[NewAppState EXCEPT
        !.positions = p.positions, !.velocities = p.velocities,
        !.masses = p.masses, !.colors = p.colors, !.types = p.types,
        !.current_time = c * snapshot_interval,
        !.snapshots =
            IF p.positions = None THEN <<>>
            ELSE [k \in 1..c |->
                    [time |-> k * snapshot_interval,
                     positions |-> Some([j \in 1..Len(p.positions.rows) |-> Vec(k, 0, 0)]),
                     velocities |-> Some(p.velocities.rows),
                     masses |-> Some(p.masses.rows),
                     colors |-> Some(p.colors.rows),
                     types |-> Some(p.types.rows)]]] :
     p \in ParticleData, c \in SnapshotCounts}

\* what ScenarioManager leaves alone
offstageVars == <<placerVars, fieldVars, universeVars, pending, noiseVars, engineVars,
                  loggerVars, windowVars, sy>>

\* ScenarioManager.save_scenario(app_state, name)
SaveScenario ==
    /\ \E a \in AppStates :
        /\ data_dir' = SaveScenarioFiles(data_dir, a)
        /\ source' = Some(a)
    /\ sc' = NoScenarioCall
    /\ UNCHANGED <<target, offstageVars>>

\* ScenarioManager.load_scenario(name, app_state)
LoadScenario ==
    /\ \E a \in AppStates :
        LET r == LoadScenarioResult(data_dir, a)
        IN /\ target' = r.state
           /\ sc' = [called |-> TRUE, ok |-> r.ok, before |-> a]
    /\ UNCHANGED <<data_dir, source, offstageVars>>

\* ScenarioManager.delete_scenario(name)
DeleteScenario ==
    /\ data_dir # EmptyDir
    /\ data_dir' = EmptyDir
    /\ source' = None
    /\ sc' = NoScenarioCall
    /\ UNCHANGED <<target, offstageVars>>

NextScenario ==
    \/ SaveScenario
    \/ LoadScenario
    \/ DeleteScenario

InitScenarioSpec ==
    /\ InitGui /\ InitLogger /\ InitEngine /\ InitPlacer
    /\ InitDensityField({DefaultVolume}) /\ InitGenerator /\ InitNoise({TRUE}, {0})

SpecScenario == InitScenarioSpec /\ [][NextScenario]_vars

-----------------------------------------------------------------------------
(* generate_galaxy_particles on two structures from one random-stream state *)

\* samples of the normalised np.random.randn(3) and of
\* np.random.uniform([0.8, 0.8, 0.9], [1.0, 1.0, 1.0]), in tenths
SynthOrientations == {Vec(0, 0, 1), Vec(1, 0, 0)}
SynthTints == {Vec(8, 8, 9), Vec(9, 9, 9)}
\* centres of the structures
SynthCenters == {Origin, Vec(PosScale, 0, 0)}

\* the properties records of the structures synthesized
SynthProperties ==
    {[GenerateGalaxyProperties(position, d) EXCEPT !.orientation = orientation,
                                                   !.color_tint = color_tint] :
        position \in SynthCenters, d \in Draws, orientation \in SynthOrientations,
        color_tint \in SynthTints}

\* a placer holding one structure, for each of two structures, and the clumps
\* the stream is about to yield
InitSynthesis ==
    \E first \in SynthProperties, second \in SynthProperties,
       num_clumps \in ClumpCounts :
        sy = [called |-> FALSE, synthesized |-> FALSE, first |-> first,
              second |-> second, num_clumps |-> num_clumps,
              first_out |-> Failure("none"), second_out |-> Failure("none")]

\* generate_galaxy_particles(0) on each placer, the stream in the same state
\* before each call
Synthesize ==
    /\ ~sy.synthesized
    /\ \E a \in GenerateGalaxyParticlesResults(<<sy.first>>, 0, {sy.num_clumps}),
          b \in GenerateGalaxyParticlesResults(<<sy.second>>, 0, {sy.num_clumps}) :
        sy' = [sy EXCEPT !.synthesized = TRUE, !.first_out = a, !.second_out = b]
    /\ UNCHANGED <<placerVars, fieldVars, universeVars, pending, noiseVars,
                   engineVars, loggerVars, windowVars, scenarioVars>>

NextSynthesis == Synthesize

InitSynthesisSpec ==
    /\ InitWindowIdle /\ InitScenario /\ InitSynthesis /\ InitLogger /\ InitEngine
    /\ InitPlacer /\ InitDensityField({DefaultVolume}) /\ InitGenerator
    /\ InitNoise({TRUE}, {0})

SpecSynthesis == InitSynthesisSpec /\ [][NextSynthesis]_vars

-----------------------------------------------------------------------------
(* Claims *)

\* the structure generate_galaxy_particles(galaxy_idx) reads
StructureAt(galaxy_idx) ==
    galaxy_properties[IF galaxy_idx >= 0 THEN galaxy_idx + 1
                      ELSE Len(galaxy_properties) + galaxy_idx + 1]

\* the rows of the segments of a whose part is in parts
RECURSIVE RowsOf(_, _)
RowsOf(a, parts) ==
    IF a = <<>> THEN 0
    ELSE (IF Head(a).part \in parts THEN Head(a).n ELSE 0) + RowsOf(Tail(a), parts)

\* C1: any two distinct centers returned by place_galaxies are at Euclidean
\* distance >= min_separation, whatever order the shuffle produced.
C1_MinSeparation ==
    pl.called =>
        \A i, j \in 1..Len(pl.positions) :
            i # j => \/ pl.min_separation <= 0
                     \/ DistSq(pl.positions[i], pl.positions[j])
                            >= pl.min_separation * pl.min_separation

\* three candidates, three requested, one rejected for being too close
C1_Witness ==
    /\ pl.called
    /\ Len(pl.density_positions) = 3
    /\ pl.num_galaxies = Some(3)
    /\ Len(pl.positions) = 2
    /\ \E k \in 1..3 : \E i \in 1..2 :
          DistSq(pl.density_positions[k], pl.positions[i])
              < pl.min_separation * pl.min_separation

\* C3: place_galaxies returns a positions list and a properties list of equal
\* length; when num_galaxies is given that length is at most num_galaxies, and it
\* is at most the number of candidates; every returned position is a candidate
\* position and no candidate (row of the candidate array) is returned twice.
C3_PlacementShape ==
    pl.called =>
        /\ Len(pl.positions) = Len(pl.properties)
        /\ pl.num_galaxies # None => Len(pl.positions) <= pl.num_galaxies[1]
        /\ Len(pl.positions) <= Len(pl.density_positions)
        /\ Len(pl.selected_indices) = Len(pl.positions)
        /\ \A k \in 1..Len(pl.positions) :
              /\ pl.selected_indices[k] \in 1..Len(pl.density_positions)
              /\ pl.positions[k] = pl.density_positions[pl.selected_indices[k]]
        /\ \A i, j \in 1..Len(pl.selected_indices) :
              i # j => pl.selected_indices[i] # pl.selected_indices[j]

\* fewer structures requested than candidates that could all be accepted
C3_Witness ==
    /\ pl.called
    /\ Len(pl.density_positions) = 3
    /\ pl.num_galaxies = Some(2)
    /\ pl.min_separation = PosScale
    /\ Len(pl.positions) = 2

\* C5: for a placed structure of every archetype generate_galaxy_particles
\* returns positions and velocities of exactly star_count rows each; for a
\* spiral the bulge rows plus the arm rows are star_count.
C5_ParticleCount ==
    (gp.called /\ gp.err = "none") =>
        LET props == StructureAt(gp.galaxy_idx)
        IN /\ Rows(gp.positions) = props.star_count
           /\ Rows(gp.velocities) = props.star_count
           /\ props.type = "spiral" =>
                 RowsOf(gp.positions, {"bulge"}) + RowsOf(gp.positions, {"arm"})
                     = props.star_count

\* a spiral whose star_count is no multiple of ten
C5_Witness ==
    /\ gp.called /\ gp.err = "none"
    /\ StructureAt(gp.galaxy_idx).type = "spiral"
    /\ StructureAt(gp.galaxy_idx).star_count = SpiralMax - 1
    /\ RowsOf(gp.positions, {"bulge"}) = 1499
    /\ RowsOf(gp.positions, {"arm"}) = 3500

\* an irregular galaxy whose clumps do not divide its star_count
C5_WitnessIrregular ==
    /\ gp.called /\ gp.err = "none"
    /\ StructureAt(gp.galaxy_idx).type = "irregular"
    /\ RowsOf(gp.positions, {"clump"}) = 249
    /\ Rows(gp.positions) = IrregularMax - 1

\* C6: after place_galaxies returns, the structures the placer holds are exactly
\* the ones that call returned, also when it received no candidates.
C6_OneShot ==
    pl.called =>
        /\ galaxy_positions = pl.positions
        /\ galaxy_properties = pl.properties

\* C7: generate_galaxy_particles(galaxy_idx) with galaxy_idx >= the number of
\* structures the placer holds fails with ValueError and produces no particles.
C7_IndexBeyond ==
    (gp.called /\ gp.galaxy_idx >= Len(galaxy_properties)) =>
        /\ gp.err = "ValueError"
        /\ gp.positions = <<>>
        /\ gp.velocities = <<>>

\* the first index past two placed structures
C7_Witness ==
    /\ gp.called
    /\ Len(galaxy_properties) = 2
    /\ gp.galaxy_idx = 2
    /\ gp.err = "ValueError"

C4_ArraysAgree ==
    gu.called =>
        /\ Rows(gu.velocities) = Rows(gu.positions)
        /\ Rows(gu.types) = Rows(gu.positions)
        /\ \A k \in 1..Len(gu.types) : gu.types[k].tag = 0

\* the normal path with two structures, one of them irregular
C4_Witness ==
    /\ gu.called
    /\ ~gu.fallback
    /\ Len(gu.placed_properties) = 2
    /\ \E k \in 1..2 : gu.placed_properties[k].type = "irregular"
    /\ Rows(gu.positions)
         = gu.placed_properties[1].star_count + gu.placed_properties[2].star_count

\* C8: on a DensityField whose generate has not been called, apply_threshold,
\* get_high_density_positions and add_gradient each fail with ValueError,
\* return no value and leave the field ungenerated.
C8_Ungenerated ==
    [][(field = None /\ ~df.called /\ df'.called /\ df'.op # "generate") =>
          (df'.err = "ValueError" /\ df'.value = <<>> /\ field' = None)]_vars

\* add_gradient has failed on an ungenerated field
C8_Witness ==
    /\ df.called
    /\ df.op = "add_gradient"
    /\ df.err = "ValueError"
    /\ field = None

\* apply_threshold has failed on an ungenerated field
C8_WitnessThreshold ==
    /\ df.called
    /\ df.op = "apply_threshold"
    /\ df.err = "ValueError"
    /\ field = None

\* the voxels of the DensityField above threshold
Qualifying(threshold) == {v \in Voxels(volume_size) : field[v] > threshold}

\* C9: get_high_density_positions(threshold, max_positions) returns only grid
\* indices whose value is > threshold, none repeated; all Q of them when
\* Q <= max_positions, exactly max_positions of them when Q > max_positions.
C9_HighDensity ==
    (df.called /\ df.op = "get_high_density_positions" /\ df.err = "none") =>
        LET q == Cardinality(Qualifying(df.threshold))
        IN /\ \A k \in 1..Len(df.value) : df.value[k] \in Qualifying(df.threshold)
           /\ \A i, j \in 1..Len(df.value) : i # j => df.value[i] # df.value[j]
           /\ q <= df.max_positions => Len(df.value) = q
           /\ q > df.max_positions => Len(df.value) = df.max_positions
           /\ Len(df.value) <= df.max_positions

\* more voxels qualify than were asked for
C9_Witness ==
    /\ df.called /\ df.op = "get_high_density_positions" /\ df.err = "none"
    /\ Cardinality(Qualifying(df.threshold)) = 3
    /\ df.max_positions = 2
    /\ Len(df.value) = 2

\* C10: when no voxel of the shaped field exceeds the threshold nothing fails:
\* get_high_density_positions returns an empty sequence, normalize_positions
\* passes it through, place_galaxies returns two empty lists and
\* generate_universe returns the fallback result.
C10_NoCandidates ==
    (gu.called /\ \A v \in Voxels(gu.volume_size) : gu.field[v] <= Threshold) =>
        /\ gu.err = "none"
        /\ gu.high_density_positions = <<>>
        /\ gu.world_positions = <<>>
        /\ gu.placed_positions = <<>>
        /\ gu.placed_properties = <<>>
        /\ gu.fallback
        /\ LET a == RandomUniverse(gu.num_galaxies, gu.world_scale)
           IN /\ gu.positions = a.positions
              /\ gu.velocities = a.velocities
              /\ gu.types = a.types

\* a volume of several voxels, none above the threshold once shaped
C10_Witness ==
    /\ gu.called
    /\ gu.volume_size = Vec(MaxDim, 1, 1)
    /\ gu.num_galaxies = 2
    /\ \A v \in Voxels(gu.volume_size) : gu.field[v] <= Threshold
    /\ gu.fallback
    /\ Rows(gu.positions) = 2 * FallbackParticles

\* C11: whenever placement accepts zero structures generate_universe returns the
\* fallback generator's output: exactly num_galaxies * 1000 particles, every
\* coordinate drawn inside [-world_scale/2, world_scale/2], and the generator's
\* generated_positions, generated_velocities, generated_types are the arrays
\* returned.
C11_Fallback ==
    (gu.called /\ gu.placed_positions = <<>>) =>
        /\ Rows(gu.positions) = gu.num_galaxies * 1000
        /\ Rows(gu.velocities) = gu.num_galaxies * 1000
        /\ Rows(gu.types) = gu.num_galaxies * 1000
        /\ \A k \in 1..Len(gu.positions) :
            /\ gu.positions[k].part = "uniform"
            /\ gu.positions[k].center = Origin
            /\ 2 * gu.positions[k].low >= 0 - gu.world_scale * PosScale
            /\ 2 * gu.positions[k].high <= gu.world_scale * PosScale
            /\ gu.positions[k].low <= gu.positions[k].high
        /\ generated_positions = gu.positions
        /\ generated_velocities = gu.velocities
        /\ generated_types = gu.types

\* one structure asked for in a two-voxel volume, none placed
C11_Witness ==
    /\ gu.called
    /\ gu.volume_size = Vec(2, 1, 1)
    /\ gu.num_galaxies = 1
    /\ gu.placed_positions = <<>>
    /\ Rows(generated_positions) = FallbackParticles

\* the number of rows before segment k of a, and up to its end
SegStart(a, k) == Rows(SubSeq(a, 1, k - 1))
SegEnd(a, k) == Rows(SubSeq(a, 1, k))

\* the first row of accepted structure i (from 1) in the returned arrays: the
\* sum of the counts of the structures accepted before it
BlockStart(i) == SumN([j \in 1..(i - 1) |-> [n |-> gu.placed_properties[j].star_count]])
BlockEnd(i) == BlockStart(i) + gu.placed_properties[i].star_count

\* segment k of a lies within the rows of structure i
InBlock(a, k, i) == BlockStart(i) <= SegStart(a, k) /\ SegEnd(a, k) <= BlockEnd(i)

\* the velocities a structure of a type is given
VelocityOf(type, seg) ==
    IF type = "spiral" THEN seg.part \in {"zero", "orbital"}
    ELSE IF type = "elliptical" THEN seg.part = "random" /\ seg.speed = 20
    ELSE seg.part = "random" /\ seg.speed = 30

\* C12: on the normal path the arrays generate_universe returns are the
\* structures' particle sets in acceptance order: rows
\* [c_0 + ... + c_(i-1), c_0 + ... + c_i) of positions and of velocities are
\* structure i's, and the number of rows is the sum of the c_i.
C12_AcceptanceOrder ==
    (gu.called /\ gu.placed_positions # <<>>) =>
        LET count == Len(gu.placed_positions)
        IN /\ Rows(gu.positions) = BlockEnd(count)
           /\ Rows(gu.velocities) = BlockEnd(count)
           /\ \A k \in 1..Len(gu.positions) : gu.positions[k].n > 0 =>
                \E i \in 1..count :
                    /\ InBlock(gu.positions, k, i)
                    /\ gu.positions[k].center = gu.placed_positions[i]
           /\ \A k \in 1..Len(gu.velocities) : gu.velocities[k].n > 0 =>
                \E i \in 1..count :
                    /\ InBlock(gu.velocities, k, i)
                    /\ VelocityOf(gu.placed_properties[i].type, gu.velocities[k])

\* two structures of different types at different centres
C12_Witness ==
    /\ gu.called
    /\ Len(gu.placed_positions) = 2
    /\ gu.placed_positions[1] # gu.placed_positions[2]
    /\ gu.placed_properties[1].type = "spiral"
    /\ gu.placed_properties[2].type = "elliptical"
    /\ Rows(gu.positions) = BlockEnd(2)

\* C13: every value of the density grid lies in [0.0, 1.0] after generate and
\* still does after add_gradient with any center and falloff, and the grid's
\* shape equals volume_size.
C13_InRange ==
    field # None =>
        /\ DOMAIN field = Voxels(volume_size)
        /\ \A v \in Voxels(volume_size) : field[v] \in 0..DensityScale

\* C13, the part on add_gradient alone: it never increases a voxel that holds
\* a number, and leaves it in [0.0, 1.0] when falloff is not 0.
C13_NeverIncreases ==
    [][(field # None /\ df'.called /\ df'.op = "add_gradient") =>
          \A v \in Voxels(volume_size) :
              field[v] \in 0..DensityScale =>
                  (field'[v] = NaN \/ field'[v] \in 0..field[v])]_vars

\* C14: a call of DensityField.generate with a non-None seed returns the field
\* the earlier calls with that seed returned (same volume, same noise
\* parameters), whatever the state of the global random stream before each call
\* and whatever ran in between.
C14_Deterministic ==
    (df.called /\ df.op = "generate" /\ df.before # None) => df.value = df.before

\* without the noise package: generate(seed=1) has returned a second time, and
\* the stream has given another field from another state
C14_Witness ==
    /\ ~noise_available
    /\ df.called /\ df.op = "generate" /\ df.seed = Some(1)
    /\ df.before # None
    /\ random_stream[2] # None
    /\ random_stream[2] # df.value

\* C15: after initialize(n) get_particle_count() is n and is_initialized() is
\* true, and after any later sequence of step, add_particle, remove_particle
\* and reset get_particle_count() equals the number of rows of get_positions()
\* and of get_velocities() and the number of entries of masses, types, colors.
C15_CountAgrees ==
    /\ (en.called /\ en.op = "initialize") =>
            (particle_count = en.particle_count /\ initialized)
    /\ initialized =>
        /\ particle_count = Len(positions.rows)
        /\ particle_count = Len(velocities.rows)
        /\ particle_count = Len(masses)
        /\ particle_count = Len(types)
        /\ particle_count = Len(colors)

\* C16: on an initialized MockEngine add_particle increases the count by
\* exactly 1 and appends the given position, velocity, mass and type as the last
\* entry of each array, leaving the earlier entries unchanged; remove_particle(i)
\* with 0 <= i < count decreases the count by exactly 1 and removes entry i from
\* every array.
C16_AddRemove ==
    (en.called /\ en.op \in {"add_particle", "remove_particle"}
        /\ en.before.initialized) =>
        /\ en.op = "add_particle" =>
            /\ en.err = "none"
            /\ particle_count = en.before.particle_count + 1
            /\ positions.rows = Append(en.before.positions, en.position)
            /\ velocities.rows = Append(en.before.velocities, en.velocity)
            /\ masses = Append(en.before.masses, en.mass)
            /\ types = Append(en.before.types, en.particle_type)
            /\ SubSeq(colors, 1, Len(colors) - 1) = en.before.colors
        /\ (en.op = "remove_particle" /\ en.index >= 0
                /\ en.index < en.before.particle_count) =>
            /\ en.err = "none"
            /\ particle_count = en.before.particle_count - 1
            /\ positions.rows = Delete(en.before.positions, en.index)
            /\ velocities.rows = Delete(en.before.velocities, en.index)
            /\ masses = Delete(en.before.masses, en.index)
            /\ types = Delete(en.before.types, en.index)
            /\ colors = Delete(en.before.colors, en.index)

\* C17: reset returns get_positions() and get_velocities() to exactly the values
\* they had when initialize finished, and step never alters the stored initial
\* state.
C17_Reset ==
    /\ (en.called /\ en.op = "reset" /\ en.before.initialized) =>
        /\ positions.rows = at_initialize.positions
        /\ velocities.rows = at_initialize.velocities
    /\ initial_positions # None =>
        /\ initial_positions.rows = at_initialize.positions
        /\ initial_velocities.rows = at_initialize.velocities

\* reset after step calls that had moved the particles and changed their velocities
C17_Witness ==
    /\ en.called /\ en.op = "reset"
    /\ ops = MaxOps
    /\ en.before.particle_count = MaxParticles
    /\ en.before.positions # at_initialize.positions
    /\ en.before.velocities # at_initialize.velocities
    /\ positions.rows = at_initialize.positions

\* the records of errors that match the filters of the last get_errors call (an
\* empty component is no filter)
Matching ==
    {k \in 1..Len(errors) :
        /\ Truthy(lg.component) => errors[k].component = lg.component[1]
        /\ lg.severity # None => errors[k].severity = lg.severity[1]}

\* C18: get_errors(component, severity, limit) returns at most limit records
\* for every limit >= 0, and they are the most recently logged records that
\* match the component and severity filters, in logging order.
C18_GetErrors ==
    lg.called =>
        /\ Len(lg.value) <= lg.limit
        /\ \A i \in 1..Len(lg.value) : \E k \in Matching : lg.value[i] = errors[k]
        /\ \A i, j \in 1..Len(lg.value) :
                i < j => lg.value[i].timestamp < lg.value[j].timestamp
        /\ \A k \in Matching :
                Cardinality({m \in Matching : m >= k}) <= lg.limit =>
                    \E i \in 1..Len(lg.value) : lg.value[i] = errors[k]

\* where candidate c stands in a visiting order
VisitedAt(order, c) == CHOOSE i \in 1..Len(order) : order[i] = c

\* sel is what one pass along order accepts: a candidate is accepted exactly
\* when fewer than quota were accepted before it and it lies at least sep from
\* each of them
GreedyAlong(order, sel, pts, quota, sep) ==
    /\ \A i \in 1..Len(sel) : sel[i] \in 1..Len(pts)
    /\ \A i, j \in 1..Len(sel) :
            i < j => VisitedAt(order, sel[i]) < VisitedAt(order, sel[j])
    /\ \A c \in 1..Len(pts) :
            LET prior == {k \in 1..Len(sel) :
                              VisitedAt(order, sel[k]) < VisitedAt(order, c)}
            IN  (\E k \in 1..Len(sel) : sel[k] = c)
                    <=> /\ Cardinality(prior) < quota
                        /\ \A k \in prior :
                               \/ sep <= 0
                               \/ DistSq(pts[sel[k]], pts[c]) >= sep * sep

\* the number of centres asked for: num_galaxies, or every candidate
Quota(num_galaxies, n) ==
    IF num_galaxies = None THEN n
    ELSE IF num_galaxies[1] < n THEN num_galaxies[1] ELSE n

\* C19: place_galaxies returns the greedy selection along one random order of
\* the candidates: each candidate is visited once and accepted exactly when
\* the quota is not yet filled and it is at least min_separation from every
\* centre accepted before it; so a result shorter than the quota leaves every
\* other candidate closer than min_separation to an accepted centre.
C19_Greedy ==
    pl.called =>
        LET pts == pl.density_positions
            sel == pl.selected_indices
            quota == Quota(pl.num_galaxies, Len(pts))
        IN  /\ \E order \in Shuffles(Len(pts)) :
                    GreedyAlong(order, sel, pts, quota, pl.min_separation)
            /\ Len(sel) < quota =>
                    \A c \in 1..Len(pts) :
                        (\A k \in 1..Len(sel) : sel[k] # c) =>
                            \E k \in 1..Len(sel) :
                                DistSq(pts[sel[k]], pts[c])
                                    < pl.min_separation * pl.min_separation

\* every candidate was asked for, one pair stands exactly min_separation
\* apart and both were accepted, and the third candidate was turned away
C19_Witness ==
    /\ pl.called
    /\ Len(pl.density_positions) = 3
    /\ pl.num_galaxies = None
    /\ Len(pl.selected_indices) = 2
    /\ DistSq(pl.density_positions[pl.selected_indices[1]],
              pl.density_positions[pl.selected_indices[2]])
           = pl.min_separation * pl.min_separation

\* the world-space image of grid index v: normalize_positions of its float32 row
WorldImage(size, v, world_scale) ==
    NormalizePositions(size, <<Float32Vec(v)>>, world_scale)[1]

\* C20: generate_universe applies the gradient exactly once, to the generated
\* field and before the candidates are extracted: the field the candidates
\* come from is the generated field times the falloff-0.4 gradient about the
\* grid centre, every candidate and so every accepted centre is the
\* normalize_positions image of a voxel whose shaped value is > 0.5, at most
\* 2 * num_galaxies candidates reach the placer, and the placer is given
\* min_separation = 0.15 * world_scale.
C20_Pipeline ==
    gu.called =>
        LET size == gu.volume_size
            above == {v \in Voxels(size) : gu.field[v] > 50}
        IN  /\ \A v \in Voxels(size) :
                    gu.field[v] =
                        TimesGradient(gu.generated[v],
                                      Gradient(size, CenterOf(size), 40, v))
            /\ \A k \in 1..Len(gu.high_density_positions) :
                    \E v \in above : gu.high_density_positions[k] = Float32Vec(v)
            /\ Len(gu.world_positions) = Len(gu.high_density_positions)
            /\ \A k \in 1..Len(gu.world_positions) :
                    \E v \in above :
                        /\ gu.high_density_positions[k] = Float32Vec(v)
                        /\ gu.world_positions[k] = WorldImage(size, v, gu.world_scale)
            /\ \A i \in 1..Len(gu.placed_positions) :
                    \E v \in above :
                        gu.placed_positions[i] = WorldImage(size, v, gu.world_scale)
            /\ Len(gu.world_positions) <= 2 * gu.num_galaxies
            /\ gu.max_positions = 2 * gu.num_galaxies
            /\ 100 * gu.min_separation = 15 * gu.world_scale * PosScale
            /\ \A i, j \in 1..Len(gu.placed_positions) :
                    i # j => DistSq(gu.placed_positions[i], gu.placed_positions[j])
                                >= gu.min_separation * gu.min_separation

\* a generated voxel above 0.5 that the gradient takes below it and that a
\* second application would take lower still, beside an accepted centre
C20_Witness ==
    /\ gu.called
    /\ gu.volume_size = Vec(MaxDim, 1, 1)
    /\ gu.num_galaxies = 1
    /\ Len(gu.placed_positions) = 1
    /\ \E v \in Voxels(gu.volume_size) :
            /\ gu.generated[v] > 50
            /\ gu.field[v] < gu.generated[v]
            /\ gu.field[v] > 50
    /\ Cardinality({v \in Voxels(gu.volume_size) : gu.field[v] > 50}) > 2

\* what C21 asks of one properties record
WellFormed(props) ==
    /\ props.type \in {"spiral", "elliptical", "irregular"}
    /\ props.star_count \in Nat /\ props.star_count > 0
    /\ props.type = "spiral" =>
            /\ props.star_count >= 1000 /\ props.star_count < 5000
            /\ props.rotation_speed >= 50 /\ props.rotation_speed < 200
    /\ props.type = "elliptical" =>
            props.star_count >= 500 /\ props.star_count < 3000
    /\ props.type = "irregular" =>
            props.star_count >= 200 /\ props.star_count < 1000
    /\ props.type # "spiral" => props.rotation_speed = 0

\* C21: every properties record produced by placement has a type among spiral,
\* elliptical, irregular, a positive star_count inside its type's range, a
\* rotation_speed of 0 unless spiral and then within [0.5, 2.0), and as
\* position the accepted centre; the same holds of the records the placer keeps.
C21_Properties ==
    /\ pl.called =>
        \A k \in 1..Len(pl.properties) :
            /\ WellFormed(pl.properties[k])
            /\ pl.properties[k].position
                   = pl.density_positions[pl.selected_indices[k]]
            /\ pl.properties[k].position = pl.positions[k]
    /\ Len(galaxy_properties) = Len(galaxy_positions)
    /\ \A k \in 1..Len(galaxy_properties) :
            /\ WellFormed(galaxy_properties[k])
            /\ galaxy_properties[k].position = galaxy_positions[k]

\* three structures placed, one of each type
C21_Witness ==
    /\ pl.called
    /\ Len(pl.properties) = 3
    /\ {pl.properties[k].type : k \in 1..3} = {"spiral", "elliptical", "irregular"}
    /\ \E k \in 1..3 : pl.properties[k].star_count = SpiralMax - 1
    /\ \E k \in 1..3 : pl.properties[k].star_count = EllipticalMin

\* the rows of clump c in a
RECURSIVE ClumpRows(_, _)
ClumpRows(a, c) ==
    IF a = <<>> THEN 0
    ELSE (IF Head(a).part = "clump" /\ Head(a).id = c THEN Head(a).n ELSE 0)
         + ClumpRows(Tail(a), c)

\* C22: an irregular galaxy returns particles of each of its num_clumps clumps,
\* count // num_clumps of each, so num_clumps * (count // num_clumps) clump
\* particles in all.
C22_EveryClump ==
    (gp.called /\ gp.err = "none" /\ StructureAt(gp.galaxy_idx).type = "irregular") =>
        LET count == StructureAt(gp.galaxy_idx).star_count
        IN /\ gp.num_clumps \in 2..4
           /\ \A c \in 1..gp.num_clumps :
                 ClumpRows(gp.positions, c) = count \div gp.num_clumps
           /\ RowsOf(gp.positions, {"clump"})
                 = gp.num_clumps * (count \div gp.num_clumps)

\* C23: a spiral's first floor(0.3 * count) rows are the bulge, with zero
\* velocity, and the remaining count - floor(0.3 * count) rows are arm
\* particles with orbital velocity; bulge and arm positions are translated by
\* the structure's centre and no velocity is.
C23_Spiral ==
    (gp.called /\ gp.err = "none" /\ StructureAt(gp.galaxy_idx).type = "spiral") =>
        LET props == StructureAt(gp.galaxy_idx)
            bulge == (3 * props.star_count) \div 10
        IN /\ Len(gp.positions) = 2 /\ Len(gp.velocities) = 2
           /\ gp.positions[1].part = "bulge" /\ gp.positions[1].n = bulge
           /\ gp.positions[2].part = "arm"
           /\ gp.positions[2].n = props.star_count - bulge
           /\ \A k \in 1..2 : gp.positions[k].center = props.position
           /\ gp.velocities[1].part = "zero" /\ gp.velocities[1].n = bulge
           /\ gp.velocities[1].speed = 0
           /\ gp.velocities[2].part = "orbital"
           /\ gp.velocities[2].n = props.star_count - bulge
           /\ gp.velocities[2].speed = props.rotation_speed
           /\ \A k \in 1..2 : gp.velocities[k].center = <<0, 0, 0>>

\* a spiral away from the origin whose star_count is no multiple of ten
C23_Witness ==
    /\ gp.called /\ gp.err = "none"
    /\ StructureAt(gp.galaxy_idx).type = "spiral"
    /\ StructureAt(gp.galaxy_idx).position # <<0, 0, 0>>
    /\ gp.positions[1].n = 1499
    /\ gp.positions[2].n = 3500
    /\ gp.positions[1].center = StructureAt(gp.galaxy_idx).position

\* C28: with num_galaxies >= 1 generate_universe takes the fallback path
\* exactly when no voxel of the shaped field exceeds 0.5: one candidate is
\* enough for one structure to be accepted, since the first candidate of the
\* shuffled order is accepted without a separation test.
C28_FallbackIff ==
    (gu.called /\ gu.num_galaxies >= 1) =>
        LET above == {v \in Voxels(gu.volume_size) : gu.field[v] > 50}
        IN /\ gu.fallback <=> above = {}
           /\ above # {} =>
                /\ Len(gu.high_density_positions) >= 1
                /\ Len(gu.placed_positions) >= 1
                /\ \E k \in 1..Len(gu.world_positions) :
                        gu.placed_positions[1] = gu.world_positions[k]
           /\ gu.fallback <=> Len(gu.placed_positions) = 0

\* one voxel above the threshold, two structures asked for, one placed
C28_Witness ==
    /\ gu.called
    /\ gu.num_galaxies = 2
    /\ Cardinality({v \in Voxels(gu.volume_size) : gu.field[v] > 50}) = 1
    /\ Len(gu.placed_positions) = 1
    /\ ~gu.fallback

\* C29: generate_galaxy_particles(galaxy_idx) with galaxy_idx outside
\* 0 .. count - 1, negative indices included, fails and returns no particles.
C29_IndexOutside ==
    (gp.called /\ (gp.galaxy_idx < 0 \/ gp.galaxy_idx >= Len(galaxy_properties))) =>
        /\ gp.err # "none"
        /\ gp.positions = <<>>
        /\ gp.velocities = <<>>

\* C24: after on_reset the engine's and app_state's positions and velocities
\* are those of the generated universe that init_engine loaded.
C24_ResetRestores ==
    event = "reset" =>
        /\ Contents(positions) = generated_positions.rows
        /\ Contents(velocities) = generated_velocities.rows
        /\ Contents(app_state.positions) = generated_positions.rows
        /\ Contents(app_state.velocities) = generated_velocities.rows

\* C26: the five particle arrays of app_state have the same number of entries
\* after every MainWindow event.
C26_SameLength ==
    event # "none" =>
        LET n == Len(Contents(app_state.positions))
        IN /\ Len(Contents(app_state.velocities)) = n
           /\ Len(Contents(app_state.masses)) = n
           /\ Len(Contents(app_state.colors)) = n
           /\ Len(Contents(app_state.types)) = n

\* C27: the update timer runs iff app_state.is_playing iff
\* timeline_widget.is_playing, after every play/pause click, reset click and
\* New Simulation; and a timer tick steps the engine only while
\* app_state.is_playing holds.
C27_PlayIndicators ==
    /\ [](event # "none" =>
            /\ update_timer = app_state.is_playing
            /\ app_state.is_playing = timeline_is_playing)
    /\ [][(event' = "tick" /\ (ops' # ops \/ positions' # positions))
              => app_state.is_playing]_vars

\* a tick has stepped the engine while all three indicators were on
C27_Witness ==
    /\ event = "tick"
    /\ ops >= 1
    /\ update_timer /\ app_state.is_playing /\ timeline_is_playing
    /\ Len(app_state.snapshots) >= 1

\* C25: load_scenario(name, T) after save_scenario(S, name) returns True and
\* leaves T with the positions, velocities, masses, colors and types S had and
\* with a snapshot list of the same length, times and positions as S's, in the
\* same order, whatever T held before and however many snapshots S had.
C25_RoundTrip ==
    (sc.called /\ source # None) =>
        LET S == source[1]
        IN /\ sc.ok
           /\ target.positions = S.positions
           /\ target.velocities = S.velocities
           /\ target.masses = S.masses
           /\ target.colors = S.colors
           /\ target.types = S.types
           /\ Len(target.snapshots) = Len(S.snapshots)
           /\ \A k \in 1..Len(S.snapshots) :
                 /\ k <= Len(target.snapshots)
                 /\ target.snapshots[k].time = S.snapshots[k].time
                 /\ target.snapshots[k].positions = S.snapshots[k].positions

\* C30: two structures that agree on centre, type, star_count, size_scale and
\* rotation_speed, synthesized from the same random-stream state, yield the
\* same positions and velocities, whatever their orientation and color_tint.
C30_OrientationIgnored ==
    (sy # NoSynthesis /\ sy.synthesized
        /\ sy.first.position = sy.second.position
        /\ sy.first.type = sy.second.type
        /\ sy.first.star_count = sy.second.star_count
        /\ sy.first.size_scale = sy.second.size_scale
        /\ sy.first.rotation_speed = sy.second.rotation_speed) =>
            /\ sy.first_out.err = "none" /\ sy.second_out.err = "none"
            /\ sy.first_out.positions = sy.second_out.positions
            /\ sy.first_out.velocities = sy.second_out.velocities

\* two spirals that differ in orientation and in color_tint have been synthesized
C30_Witness ==
    /\ sy # NoSynthesis /\ sy.synthesized
    /\ sy.first.type = "spiral" /\ sy.second.type = "spiral"
    /\ sy.first.position = sy.second.position
    /\ sy.first.orientation # sy.second.orientation
    /\ sy.first.color_tint # sy.second.color_tint
    /\ Rows(sy.first_out.positions) = sy.first.star_count
    /\ sy.first_out.positions = sy.second_out.positions

====
